---------------------------- MODULE Spec2Model ----------------------------
(***************************************************************************)
(* Memory and learning core of the TAAT trading-signal agent.              *)
(*                                                                         *)
(* The module holds one group of variables per component and one           *)
(* specification per component:                                            *)
(*   SpecWM   WorkingMemory                (agent_core/memory/memory.py)   *)
(*   SpecRL   ReinforcementLearning, one engine                            *)
(*   SpecRLSelect  one engine, updates and selections in one state         *)
(*   SpecRLModel  two engines exchanging a saved model                     *)
(*   SpecSem  SemanticMemory and the FeedbackProcessor reliability updates *)
(*   SpecProc ProceduralMemory and the FeedbackProcessor strategy updates  *)
(*   SpecPat  PatternRecognition's pattern store                           *)
(*   SpecKey  the canonical keys                                           *)
(* Every specification opens the inputs of its own component and keeps the *)
(* other components in their constructed state.                            *)
(*                                                                         *)
(* Numbers.  Python floats are modelled as fixed-point numbers: the        *)
(* integer n stands for n / Scale.  A product or quotient is rounded down  *)
(* to the grid (the code rounds to the nearest binary64 instead).          *)
(* Strings.  A Python string is a sequence of tokens (TLA+ strings); the   *)
(* separator "|" and the prefixes "state:" and "action:" are tokens, so    *)
(* concatenation is \o and str.startswith is a prefix test.                *)
(***************************************************************************)
EXTENDS Integers, Sequences, FiniteSets, TLC

VARIABLES
    \* WorkingMemory
    conversation_history, max_history, wm_clock,
    \* ReinforcementLearning: two engines built from one configuration, the
    \* dictionaries they hold (by reference), and the model save_model returned
    rl_config, heap, engine, saved_model, rl_updates, rate_after_update, rl_select,
    \* DatabaseManager: the three tables, and the append-only stores the
    \* learning engines write through it
    trader_profiles, market_knowledge, action_patterns,
    feedback_store, detected_patterns,
    \* SemanticMemory and ProceduralMemory caches
    trader_cache, market_cache, pattern_cache,
    \* FeedbackProcessor
    fb_config, feedback_history,
    \* PatternRecognition: its cache and how each _store_pattern call ended
    pr_pattern_cache, pr_calls,
    \* canonical keys: the two payloads keyed and the keys computed
    key_payloads, key_results,
    \* MemoryManager: the vector index of the episodic tier, and how the last
    \* get_context or update_memories call ended
    episodic_store, mm_result,
    \* the options the MemoryManager was built under
    enhanced_config,
    \* LearningTaatAgent: the turn in progress (where process_input stands
    \* and what it holds), and the calls of the turn completed so far
    agent_turn, turn_log,
    \* LearningManager: its background_task field, every task created for the
    \* background loop, how the last run_learning_cycle ended, and the last
    \* start or stop call
    background_task, tasks, cycle_return, loop_call,
    \* ProceduralMemory.store_pattern in progress: for each of its two
    \* callers, where the call stands and the record it read
    store_calls,
    \* SemanticMemory: the last get_trader_profile or get_market_knowledge
    \* call and the record it returned
    sem_call,
    \* PerformanceTracker: its configuration and metrics history, the trade
    \* outcomes and the metrics snapshots of the store, the calls made and
    \* what the last calculate_metrics call read and returned
    perf_config, metrics_history, trade_outcomes, metrics_store, perf_calls,
    perf_result,
    \* PatternRecognition: its configuration, and the last detect_patterns
    \* call with what it read and returned
    pr_config, pr_result,
    \* FeedbackProcessor: the last process_user_feedback or
    \* process_trade_outcome call, the data it was given and the value or
    \* reward it returned
    fb_call,
    \* the learning cycle: the UTC clock in hours, the PerformanceTracker's
    \* last_report_time, the performance reports of the store, and how the
    \* last run_learning_cycle call ended
    utc_now, last_report_time, report_store, cycle_log

wmVars == <<conversation_history, max_history, wm_clock>>
rlVars == <<rl_config, heap, engine, saved_model, rl_updates, rate_after_update,
           rl_select>>
semVars == <<trader_profiles, market_knowledge, trader_cache, market_cache>>
procVars == <<action_patterns, pattern_cache>>
fbVars == <<fb_config, feedback_history, feedback_store>>
patVars == <<detected_patterns, pr_pattern_cache, pr_calls>>
keyVars == <<key_payloads, key_results>>
mmVars == <<episodic_store, mm_result, enhanced_config>>
turnVars == <<agent_turn, turn_log>>
loopVars == <<background_task, tasks, cycle_return, loop_call>>
concVars == <<store_calls>>
callVars == <<sem_call>>
perfVars == <<perf_config, metrics_history, trade_outcomes, metrics_store, perf_calls,
              perf_result>>
detVars == <<pr_config, pr_result>>
fbCallVars == <<fb_call>>
cycleVars == <<utc_now, last_report_time, report_store, cycle_log>>
sideVars == <<concVars, callVars, perfVars, detVars, fbCallVars, cycleVars>>
agentVars == <<mmVars, turnVars, loopVars, sideVars>>
vars == <<wmVars, rlVars, semVars, procVars, fbVars, patVars, keyVars, agentVars>>

-----------------------------------------------------------------------------
(* Bounds of the model *)

MaxCapacity == 2        \* largest max_history tried
MaxTurns == 6           \* WorkingMemory.update calls in one run
MaxUpdates == 3         \* update_q_value calls in one run
MaxSelects == 1         \* select_action calls per engine in one run
MaxSelectCalls == 2     \* select_action calls with no candidate in one run
MaxFeedback == 2        \* FeedbackProcessor calls in one run
MaxFeedbackCalls == 101 \* FeedbackProcessor calls in one long run
MaxHistoryTurns == 101  \* update_memories calls in one long run
MaxOutcomes == 6        \* trade outcome records in the store
MaxCalculations == 2    \* calculate_metrics calls in one run
MaxDetectTrades == 3    \* trade records enumerated for one detect_patterns call
MaxRewardCalls == 2     \* process_trade_outcome calls in one run of rewards
MaxManagerCalls == 2    \* LearningManager feedback and outcome calls in one run
MaxUnreachableCalls == 2 \* FeedbackProcessor calls in one run over a failing store
MaxFeedbackSteps == 2   \* FeedbackProcessor calls in one run with patterns stored
MaxCycles == 2          \* run_learning_cycle calls in one run
MaxHours == 3           \* hours on the clock in one run of cycles
MaxDetections == 2      \* detect_patterns calls in one run
MaxTrades == 2          \* successful + failed trades counted on one profile
MaxObservations == 2    \* successes + failures counted on one action pattern
MaxStored == 3          \* _store_pattern calls in one run
MaxMemoryTurns == 3     \* update_memories calls in one run
MaxTasks == 2           \* background tasks created in one run
MaxLoopCalls == 3       \* start and stop calls in one run
MaxMined == 1           \* patterns the miners hand to the cycles of one run

-----------------------------------------------------------------------------
(* Fixed-point numbers and Python's min / max *)

Scale == 10 * 10 * 10 * 10

Mul(a, b) == (a * b) \div Scale

\* Python's max(a, b): b only when b > a
PyMax(a, b) == IF b > a THEN b ELSE a

\* Python's min(a, b): b only when b < a
PyMin(a, b) == IF b < a THEN b ELSE a

\* lst[-n:] for n >= 0; lst[-0:] is lst[0:], the whole list
SliceLast(lst, n) ==
    IF n = 0 \/ n >= Len(lst) THEN lst
    ELSE SubSeq(lst, Len(lst) - n + 1, Len(lst))

\* str.startswith
Range(f) == { f[x] : x \in DOMAIN f }

\* lst[:n]
SliceFirst(lst, n) == SubSeq(lst, 1, PyMin(n, Len(lst)))

StartsWith(s, prefix) ==
    /\ Len(prefix) <= Len(s)
    /\ SubSeq(s, 1, Len(prefix)) = prefix

Last(s) == s[Len(s)]

-----------------------------------------------------------------------------
(* WorkingMemory *)

\* what one turn hands to update: (input_data, response, result)
Turns == {"turn_a", "turn_b"}

WMConstructed(n) ==
    /\ conversation_history = <<>>
    /\ max_history = n
    /\ wm_clock = 0

\* WorkingMemory.update: append, then trim to the last max_history entries.
\* datetime.now() is the number of the call.
WMRecorded(turn) ==
    /\ LET appended == Append(conversation_history,
                              [turn |-> turn, timestamp |-> wm_clock + 1])
       IN conversation_history' =
              IF Len(appended) > max_history
              THEN SliceLast(appended, max_history)
              ELSE appended
    /\ wm_clock' = wm_clock + 1
    /\ UNCHANGED max_history

WMUpdate(turn) ==
    /\ wm_clock < MaxTurns
    /\ WMRecorded(turn)

-----------------------------------------------------------------------------
(* Values handed to the engines: a string or a dict.  A dict is the        *)
(* sequence of its (key, value) items in insertion order, keys distinct.   *)

StrVal(text) == [isdict |-> FALSE, text |-> text, items |-> <<>>]
DictVal(items) == [isdict |-> TRUE, text |-> <<>>, items |-> items]

\* Python's order of the key strings used in payloads
KeyRank ==
    [action |-> 1, content |-> 2, id |-> 3, outcome |-> 4, symbol |-> 5, tool |-> 6,
     trader_id |-> 7, type |-> 8]

RECURSIVE InsertItem(_, _)
InsertItem(item, sorted) ==
    IF sorted = <<>> THEN <<item>>
    ELSE IF KeyRank[item[1]] < KeyRank[Head(sorted)[1]]
         THEN <<item>> \o sorted
         ELSE <<Head(sorted)>> \o InsertItem(item, Tail(sorted))

RECURSIVE SortItems(_)
SortItems(items) ==
    IF items = <<>> THEN <<>>
    ELSE InsertItem(Head(items), SortItems(Tail(items)))

RECURSIVE ItemsText(_)
ItemsText(items) ==
    IF items = <<>> THEN <<>>
    ELSE <<"\"", Head(items)[1], "\"", ":", "\"", Head(items)[2], "\"", ",">>
         \o ItemsText(Tail(items))

\* json.dumps(value) without sort_keys: items in insertion order
JsonDumpsUnsorted(value) ==
    IF value.isdict
    THEN <<"{">> \o ItemsText(value.items) \o <<"}">>
    ELSE <<"\"">> \o value.text \o <<"\"">>

\* json.dumps(value, sort_keys=True)
JsonDumps(value) ==
    IF value.isdict
    THEN <<"{">> \o ItemsText(SortItems(value.items)) \o <<"}">>
    ELSE <<"\"">> \o value.text \o <<"\"">>

\* hashlib.md5(text.encode()).hexdigest(): a digest that determines its text
\* (no collisions), written as one bracketed token run without separators
Md5(text) == <<"md5(">> \o text \o <<")">>

-----------------------------------------------------------------------------
(* ReinforcementLearning *)

Engines == 1 .. 2
QDict(e) == 2 * e - 1       \* the dict engine e was constructed with as q_values
TDict(e) == 2 * e           \* ... and as state_transitions
DictIds == 1 .. 4

EmptyDict == [k \in {} |-> 0]

DictGet(d, key, default) == IF key \in DOMAIN d THEN d[key] ELSE default

DictSet(d, key, value) ==
    [k \in DOMAIN d \cup {key} |-> IF k = key THEN value ELSE d[k]]

\* ReinforcementLearningConfig: the defaults, and a second configuration
\* with a fast decay and a high floor
RLConfigs ==
    { [learning_rate |-> Scale \div 10, discount_factor |-> 9 * (Scale \div 10),
       exploration_rate |-> 2 * (Scale \div 10),
       min_exploration_rate |-> Scale \div 100,
       exploration_decay |-> 995 * (Scale \div 1000), reward_scale |-> Scale],
      [learning_rate |-> Scale \div 2, discount_factor |-> Scale \div 2,
       exploration_rate |-> Scale \div 2,
       min_exploration_rate |-> 15 * (Scale \div 100),
       exploration_decay |-> Scale \div 2, reward_scale |-> Scale] }

DefaultRLConfig ==
    CHOOSE c \in RLConfigs : c.exploration_decay = 995 * (Scale \div 1000)

\* ReinforcementLearning.__init__: engine e with its own two empty dicts
EngineConstructed(cfg, e) ==
    [q_values |-> QDict(e), state_transitions |-> TDict(e),
     exploration_rate |-> cfg.exploration_rate,
     action_history |-> <<>>]

\* the last select_action call: its candidates and what it returned
NoSelect == [calls |-> 0, possible_actions |-> <<>>, returned |-> <<>>]

RLConstructed(cfg) ==
    /\ rl_config = cfg
    /\ heap = [d \in DictIds |-> EmptyDict]
    /\ engine = [e \in Engines |-> EngineConstructed(cfg, e)]
    /\ saved_model = <<>>
    /\ rl_updates = 0
    /\ rate_after_update = [e \in Engines |-> -1]
    /\ rl_select = NoSelect

get_state_key(state) ==
    IF state.isdict
    THEN <<"state:">> \o Md5(JsonDumps(state))
    ELSE <<"state:">> \o state.text

get_action_key(action) ==
    IF action.isdict
    THEN <<"action:">> \o Md5(JsonDumps(action))
    ELSE <<"action:">> \o action.text

get_state_action_key(state_key, action_key) ==
    state_key \o <<"|">> \o action_key

\* the values of the entries whose key starts with next_state_key + "|"
NextQValues(q, next_state_key) ==
    { q[k] : k \in { sa \in DOMAIN q : StartsWith(sa, next_state_key \o <<"|">>) } }

SetMax(S) == CHOOSE x \in S : \A y \in S : y <= x

MaxNextQ(q, next_state_key) ==
    LET next_q_values == NextQValues(q, next_state_key)
    IN IF next_q_values # {} THEN SetMax(next_q_values) ELSE 0

\* the Q-learning formula of update_q_value
NewQ(cfg, current_q, reward, max_next_q) ==
    current_q + Mul(cfg.learning_rate,
                    Mul(reward, cfg.reward_scale)
                    + Mul(cfg.discount_factor, max_next_q) - current_q)

\* the decay without the floor min_exploration_rate
DecayedRateNoFloor(cfg, rate) == Mul(rate, cfg.exploration_decay)

DecayedRate(cfg, rate) ==
    PyMax(cfg.min_exploration_rate, Mul(rate, cfg.exploration_decay))

UpdateQValue(e, state, action, reward, next_state) ==
    /\ rl_updates < MaxUpdates
    /\ LET q == heap[engine[e].q_values]
           t == heap[engine[e].state_transitions]
           state_key == get_state_key(state)
           action_key == get_action_key(action)
           next_state_key == get_state_key(next_state)
           state_action_key == get_state_action_key(state_key, action_key)
           current_q == DictGet(q, state_action_key, 0)
           new_q == NewQ(rl_config, current_q, reward, MaxNextQ(q, next_state_key))
           transition_key == state_key \o <<"|">> \o next_state_key
           new_rate == DecayedRate(rl_config, engine[e].exploration_rate)
       IN /\ heap' = [heap EXCEPT
                         ![engine[e].q_values] = DictSet(q, state_action_key, new_q),
                         ![engine[e].state_transitions] =
                             DictSet(t, transition_key, DictGet(t, transition_key, 0) + 1)]
          /\ engine' = [engine EXCEPT ![e].exploration_rate = new_rate]
          /\ rate_after_update' = [rate_after_update EXCEPT ![e] = new_rate]
    /\ rl_updates' = rl_updates + 1
    /\ UNCHANGED <<rl_config, saved_model, rl_select>>

\* a sort that is descending but puts a later candidate before an equal earlier one
RECURSIVE InsertByQUnstable(_, _)
InsertByQUnstable(x, sorted) ==
    IF sorted = <<>> THEN <<x>>
    ELSE IF x.q_value > Head(sorted).q_value
         THEN <<x>> \o sorted
         ELSE <<Head(sorted)>> \o InsertByQUnstable(x, Tail(sorted))

\* list.sort(key=q_value, reverse=True): descending and stable, equal
\* Q-values keep the order of the candidate list
RECURSIVE InsertByQ(_, _)
InsertByQ(x, sorted) ==
    IF sorted = <<>> THEN <<x>>
    ELSE IF x.q_value >= Head(sorted).q_value
         THEN <<x>> \o sorted
         ELSE <<Head(sorted)>> \o InsertByQ(x, Tail(sorted))

RECURSIVE SortByQDescending(_)
SortByQDescending(pairs) ==
    IF pairs = <<>> THEN <<>>
    ELSE InsertByQ(Head(pairs), SortByQDescending(Tail(pairs)))

\* the (action, q_value) list select_action builds for its candidates
CandidateQValues(q, state, possible_actions) ==
    [i \in 1 .. Len(possible_actions) |->
        [action |-> possible_actions[i],
         q_value |-> DictGet(q,
                             get_state_action_key(get_state_key(state),
                                                  get_action_key(possible_actions[i])),
                             0)]]

\* a select_action that records the call without candidates as well
SelectNoneLogged(e, state, possible_actions) ==
    /\ possible_actions = <<>>
    /\ rl_select.calls < MaxSelectCalls
    /\ rl_select' = [calls |-> rl_select.calls + 1,
                     possible_actions |-> possible_actions, returned |-> <<>>]
    /\ engine' = [engine EXCEPT ![e].action_history =
                     Append(@, [state |-> state, action |-> StrVal(<<>>),
                                type |-> "exploration", q_value |-> <<>>])]
    /\ UNCHANGED <<rl_config, heap, saved_model, rl_updates, rate_after_update>>

\* select_action with no candidate: returns None and records nothing
SelectNone(e, state, possible_actions) ==
    /\ possible_actions = <<>>
    /\ rl_select.calls < MaxSelectCalls
    /\ rl_select' = [calls |-> rl_select.calls + 1,
                     possible_actions |-> possible_actions, returned |-> <<>>]
    /\ UNCHANGED <<rl_config, heap, engine, saved_model, rl_updates, rate_after_update>>

\* select_action, random.random() < exploration_rate: any candidate
SelectExploration(e, state, possible_actions) ==
    /\ possible_actions # <<>>
    /\ engine[e].exploration_rate > 0
    /\ Len(engine[e].action_history) < MaxSelects
    /\ \E i \in 1 .. Len(possible_actions) :
          /\ engine' = [engine EXCEPT ![e].action_history =
                           Append(@, [state |-> state, action |-> possible_actions[i],
                                      type |-> "exploration", q_value |-> <<>>])]
          /\ rl_select' = [calls |-> rl_select.calls + 1,
                           possible_actions |-> possible_actions,
                           returned |-> <<possible_actions[i]>>]
    /\ UNCHANGED <<rl_config, heap, saved_model, rl_updates, rate_after_update>>

\* select_action, random.random() >= exploration_rate: the head of the sorted list
SelectExploitation(e, state, possible_actions) ==
    /\ possible_actions # <<>>
    /\ engine[e].exploration_rate < Scale
    /\ Len(engine[e].action_history) < MaxSelects
    /\ LET q_values == SortByQDescending(
                           CandidateQValues(heap[engine[e].q_values], state,
                                            possible_actions))
       IN /\ engine' = [engine EXCEPT ![e].action_history =
                           Append(@, [state |-> state, action |-> q_values[1].action,
                                      type |-> "exploitation",
                                      q_value |-> <<q_values[1].q_value>>])]
          /\ rl_select' = [calls |-> rl_select.calls + 1,
                           possible_actions |-> possible_actions,
                           returned |-> <<q_values[1].action>>]
    /\ UNCHANGED <<rl_config, heap, saved_model, rl_updates, rate_after_update>>

SelectAction(e, state, possible_actions) ==
    \/ SelectNone(e, state, possible_actions)
    \/ SelectExploration(e, state, possible_actions)
    \/ SelectExploitation(e, state, possible_actions)

\* save_model: the model holds the engine's own dictionaries and its rate
SavedModelOf(eng) ==
    [q_values |-> eng.q_values, state_transitions |-> eng.state_transitions,
     exploration_rate |-> eng.exploration_rate]

\* a load_model that restores the two tables and keeps the engine's own rate
LoadedEngineKeepsRate(eng, model_data) ==
    [eng EXCEPT !.q_values = model_data.q_values,
                !.state_transitions = model_data.state_transitions]

\* load_model: the engine takes the model's dictionaries and rate
LoadedEngine(eng, model_data) ==
    [eng EXCEPT !.q_values = model_data.q_values,
                !.state_transitions = model_data.state_transitions,
                !.exploration_rate = model_data.exploration_rate]

SaveModel(e) ==
    /\ saved_model' = <<SavedModelOf(engine[e])>>
    /\ UNCHANGED <<rl_config, heap, engine, rl_updates, rate_after_update, rl_select>>

LoadModel(e) ==
    /\ saved_model # <<>>
    /\ engine' = [engine EXCEPT ![e] = LoadedEngine(@, saved_model[1])]
    /\ UNCHANGED <<rl_config, heap, saved_model, rl_updates, rate_after_update, rl_select>>

\* inputs of the engines
StateInputs == {StrVal(<<"s">>), StrVal(<<"s", "|", "x">>)}
ActionInputs == {StrVal(<<"a">>), StrVal(<<"b">>)}
RewardInputs == {-Scale, Scale}
CandidateLists ==
    {<<>>} \cup {<<a>> : a \in ActionInputs}
           \cup {<<a, b>> : a \in ActionInputs, b \in ActionInputs}

-----------------------------------------------------------------------------
(* DatabaseManager.  A table is a function on the ids stored (trader_id and *)
(* symbol are unique columns); action_patterns, which has no unique        *)
(* constraint, is the sequence of its rows and a query returns the first   *)
(* match.  A missing value or dict key is <<>>, a present one is <<v>>.    *)

None == <<>>
Some(x) == <<x>>

\* the JSON data column of a profile or knowledge row, by top-level key;
\* history is trade_history (trader) or trade_signals (market)
EmptyData == [reliability |-> None, feedback_history |-> None, history |-> None]

\* dict.update on the JSON data: the keys given replace the stored ones
DataUpdated(data, updates) ==
    [k \in DOMAIN data |-> IF updates[k] # None THEN updates[k] ELSE data[k]]

\* create_trader_profile: only trader_id and the JSON data are set, the
\* counters and reliability take the column defaults
TraderProfileCreated(trader_id, data) ==
    [trader_id |-> trader_id, successful_trades |-> 0, failed_trades |-> 0,
     reliability |-> Scale \div 2, data |-> data]

NoUpdates ==
    [successful_trades |-> None, failed_trades |-> None, reliability |-> None,
     data |-> None]

\* update_trader_profile on the row found
TraderProfileUpdated(row, updates) ==
    [row EXCEPT
        !.successful_trades =
            IF updates.successful_trades # None THEN updates.successful_trades[1] ELSE @,
        !.failed_trades =
            IF updates.failed_trades # None THEN updates.failed_trades[1] ELSE @,
        !.reliability =
            IF updates.reliability # None THEN updates.reliability[1] ELSE @,
        !.data = IF updates.data # None THEN DataUpdated(@, updates.data[1]) ELSE @]

\* create_market_knowledge / update_market_knowledge (name and sector left out)
MarketKnowledgeCreated(symbol, data) == [symbol |-> symbol, data |-> data]

MarketKnowledgeUpdated(row, updates) ==
    [row EXCEPT !.data = IF updates.data # None THEN DataUpdated(@, updates.data[1]) ELSE @]

\* create_action_pattern: only the type, the key and the JSON data are set;
\* success_count, failure_count and effectiveness take the column defaults
ActionPatternCreated(pattern_type, pattern_key, data) ==
    [pattern_type |-> pattern_type, pattern_key |-> pattern_key,
     success_count |-> 0, failure_count |-> 0, effectiveness |-> Scale \div 2,
     data |-> data]

\* query(ActionPattern).filter_by(...).first(): the index of the row, 0 if none
FirstPattern(rows, pattern_type, pattern_key) ==
    LET hits == { i \in 1 .. Len(rows) :
                    /\ rows[i].pattern_type = pattern_type
                    /\ rows[i].pattern_key = pattern_key }
    IN IF hits = {} THEN 0 ELSE CHOOSE i \in hits : \A j \in hits : i <= j

\* update_action_pattern on the row found.  The JSON data of a row has the
\* keys success_count, failure_count, effectiveness and data (which holds
\* pattern_data) that store_pattern passed to create, and after an update a
\* top-level key pattern_data as well
ActionPatternUpdated(row, updates) ==
    [row EXCEPT
        !.success_count =
            IF updates.success_count # None THEN updates.success_count[1] ELSE @,
        !.failure_count =
            IF updates.failure_count # None THEN updates.failure_count[1] ELSE @,
        !.effectiveness =
            IF updates.effectiveness # None THEN updates.effectiveness[1] ELSE @,
        !.data = IF updates.data # None
                 THEN [@ EXCEPT !.pattern_data = Some(updates.data[1].pattern_data)]
                 ELSE @]

DBConstructed ==
    /\ trader_profiles = <<>>
    /\ market_knowledge = <<>>
    /\ action_patterns = <<>>
    /\ feedback_store = <<>>
    /\ detected_patterns = <<>>

-----------------------------------------------------------------------------
(* SemanticMemory *)

TraderIds == {"trader1"}
Symbols == {"AAPL"}
Outcomes == {"success", "failure", "unknown"}

SemanticConstructed ==
    /\ trader_cache = <<>>
    /\ market_cache = <<>>

NoGet == [op |-> "none", key |-> "", returned |-> None]

\* no FeedbackProcessor call made yet
NoFeedbackCall == [calls |-> 0, op |-> "none", data |-> <<>>, returned |-> 0]

\* the record SemanticMemory passes to create_trader_profile: the dict carries
\* "reliability": 0.5 at its top level and its histories one level down
DefaultProfile(trader_id) ==
    TraderProfileCreated(trader_id,
                         [EmptyData EXCEPT !.reliability = Some(Scale \div 2)])

\* get_trader_profile creating whenever the cache misses
TraderFetchedStoreSkipped(db, cache, trader_id) ==
    IF trader_id \in DOMAIN cache
    THEN [db |-> db, cache |-> cache, profile |-> cache[trader_id]]
    ELSE [db |-> (trader_id :> DefaultProfile(trader_id)) @@ db,
          cache |-> (trader_id :> DefaultProfile(trader_id)) @@ cache,
          profile |-> DefaultProfile(trader_id)]

\* get_trader_profile: cache, then store, then create with the defaults
TraderFetched(db, cache, trader_id) ==
    IF trader_id \in DOMAIN cache
    THEN [db |-> db, cache |-> cache, profile |-> cache[trader_id]]
    ELSE LET profile ==
                 IF trader_id \in DOMAIN db THEN db[trader_id]
                 ELSE DefaultProfile(trader_id)
         IN [db |-> (trader_id :> profile) @@ db,
             cache |-> (trader_id :> profile) @@ cache,
             profile |-> profile]

\* get_market_knowledge: the dict passed to create has name, sector and data
MarketFetched(db, cache, symbol) ==
    IF symbol \in DOMAIN cache
    THEN [db |-> db, cache |-> cache, knowledge |-> cache[symbol]]
    ELSE LET knowledge ==
                 IF symbol \in DOMAIN db THEN db[symbol]
                 ELSE MarketKnowledgeCreated(symbol, EmptyData)
         IN [db |-> (symbol :> knowledge) @@ db,
             cache |-> (symbol :> knowledge) @@ cache,
             knowledge |-> knowledge]

GetTraderProfile(trader_id) ==
    LET got == TraderFetched(trader_profiles, trader_cache, trader_id)
    IN /\ trader_profiles' = got.db
       /\ trader_cache' = got.cache
       /\ UNCHANGED <<market_knowledge, market_cache>>

GetMarketKnowledge(symbol) ==
    LET got == MarketFetched(market_knowledge, market_cache, symbol)
    IN /\ market_knowledge' = got.db
       /\ market_cache' = got.cache
       /\ UNCHANGED <<trader_profiles, trader_cache>>

\* update_trader_reliability counting every outcome but success as a failure
ReliabilityUpdatesTwoWay(profile, outcome) ==
    LET s == profile.successful_trades + IF outcome = "success" THEN 1 ELSE 0
        f == profile.failed_trades + IF outcome = "success" THEN 0 ELSE 1
    IN [successful_trades |-> Some(s), failed_trades |-> Some(f),
        reliability |-> Some((s * Scale) \div (s + f)), data |-> None]

\* the updates update_trader_reliability computes from the profile it got
ReliabilityUpdates(profile, outcome) ==
    LET successful == IF outcome = "success" THEN Some(profile.successful_trades + 1)
                      ELSE None
        failed == IF outcome = "failure" THEN Some(profile.failed_trades + 1)
                  ELSE None
        s == IF successful # None THEN successful[1] ELSE profile.successful_trades
        f == IF failed # None THEN failed[1] ELSE profile.failed_trades
        total_trades == s + f
    IN [successful_trades |-> successful, failed_trades |-> failed,
        reliability |-> IF total_trades > 0
                        THEN Some((s * Scale) \div total_trades) ELSE None,
        data |-> None]

\* update_trader_profile: the profile is fetched, the row is updated in the
\* store and the cache takes the updated row; when the store raises (~ok)
\* what the fetch did stays
TraderProfileWritten(db, cache, trader_id, updates, ok) ==
    LET got == TraderFetched(db, cache, trader_id)
        updated == TraderProfileUpdated(got.db[trader_id], updates)
    IN IF ok
       THEN [db |-> [got.db EXCEPT ![trader_id] = updated],
             cache |-> [got.cache EXCEPT ![trader_id] = updated]]
       ELSE [db |-> got.db, cache |-> got.cache]

\* update_trader_reliability, through update_trader_profile
ReliabilityWritten(db, cache, trader_id, outcome, ok) ==
    LET got == TraderFetched(db, cache, trader_id)
    IN TraderProfileWritten(got.db, got.cache, trader_id,
                            ReliabilityUpdates(got.profile, outcome), ok)

UpdateTraderReliability(trader_id, outcome) ==
    LET got == TraderFetched(trader_profiles, trader_cache, trader_id)
        written == ReliabilityWritten(trader_profiles, trader_cache, trader_id,
                                      outcome, TRUE)
    IN /\ got.profile.successful_trades + got.profile.failed_trades < MaxTrades
       /\ trader_profiles' = written.db
       /\ trader_cache' = written.cache
       /\ UNCHANGED <<market_knowledge, market_cache>>

\* add_trade_to_history: the list under trade_history of the profile's JSON
\* data (a fresh list when the key is absent) is appended to in place, so
\* the cached profile sees the entry even if the store then raises; the
\* list is written back whole, untrimmed
TradeAdded(db, cache, trader_id, trade_data, ok) ==
    LET got == TraderFetched(db, cache, trader_id)
        present == got.profile.data.history # None
        trade_history == Append(IF present THEN got.profile.data.history[1] ELSE <<>>,
                                trade_data)
        appended_in_place ==
            IF present
            THEN [got.cache EXCEPT ![trader_id].data.history = Some(trade_history)]
            ELSE got.cache
    IN TraderProfileWritten(
           got.db, appended_in_place, trader_id,
           [NoUpdates EXCEPT
               !.data = Some([EmptyData EXCEPT !.history = Some(trade_history)])],
           ok)

\* update_market_knowledge
MarketKnowledgeWritten(db, cache, symbol, updates, ok) ==
    LET got == MarketFetched(db, cache, symbol)
        updated == MarketKnowledgeUpdated(got.db[symbol], updates)
    IN IF ok
       THEN [db |-> [got.db EXCEPT ![symbol] = updated],
             cache |-> [got.cache EXCEPT ![symbol] = updated]]
       ELSE [db |-> got.db, cache |-> got.cache]

\* add_signal_to_market: as add_trade_to_history, on trade_signals
SignalAdded(db, cache, symbol, signal_data, ok) ==
    LET got == MarketFetched(db, cache, symbol)
        present == got.knowledge.data.history # None
        trade_signals == Append(IF present THEN got.knowledge.data.history[1] ELSE <<>>,
                                signal_data)
        appended_in_place ==
            IF present
            THEN [got.cache EXCEPT ![symbol].data.history = Some(trade_signals)]
            ELSE got.cache
    IN MarketKnowledgeWritten(
           got.db, appended_in_place, symbol,
           [data |-> Some([EmptyData EXCEPT !.history = Some(trade_signals)])],
           ok)

ClearCaches ==
    /\ trader_cache' = <<>>
    /\ market_cache' = <<>>
    /\ UNCHANGED <<trader_profiles, market_knowledge>>

-----------------------------------------------------------------------------
(* FeedbackProcessor *)

FeedbackHistoryCap == 100

\* FeedbackConfig: the defaults, and a second configuration that forgets faster
DefaultFeedbackConfig ==
    [positive_threshold |-> (7 * Scale) \div 10,
     negative_threshold |-> (3 * Scale) \div 10,
     feedback_decay |-> (9 * Scale) \div 10]

FeedbackConfigs ==
    { DefaultFeedbackConfig,
      [positive_threshold |-> (7 * Scale) \div 10,
       negative_threshold |-> (3 * Scale) \div 10,
       feedback_decay |-> Scale \div 2] }

FeedbackConstructed(cfg) ==
    /\ fb_config = cfg
    /\ feedback_history = <<>>

\* a feedback value is a string or a number
StrValue(text) == [isstr |-> TRUE, text |-> text, num |-> 0]
NumValue(n) == [isstr |-> FALSE, text |-> "", num |-> n]

\* str.lower on the strings tried
Lower(text) ==
    CASE text = "Good" -> "good"
      [] text = "NO" -> "no"
      [] text = "SUCCESS" -> "success"
      [] OTHER -> text

\* process_user_feedback: the value normalized to [-1, 1]
NormalizedValue(value) ==
    IF value.isstr
    THEN IF Lower(value.text) \in {"positive", "good", "yes"} THEN Scale
         ELSE IF Lower(value.text) \in {"negative", "bad", "no"} THEN -Scale
         ELSE 0
    ELSE PyMax(-Scale, PyMin(Scale, value.num))

\* profit_loss / 100 with neither bound applied
RewardUnclamped(outcome, profit_loss) ==
    IF Lower(outcome) \in {"success", "failure"}
    THEN (profit_loss * Scale) \div 100 ELSE 0

\* _calculate_reward; profit_loss is an amount in whole units
calculate_reward(outcome, profit_loss) ==
    IF Lower(outcome) = "success"
    THEN PyMin(Scale, PyMax(Scale \div 10, (profit_loss * Scale) \div 100))
    ELSE IF Lower(outcome) = "failure"
    THEN PyMax(-Scale, PyMin(-(Scale \div 10), (profit_loss * Scale) \div 100))
    ELSE 0

\* the decayed average without the clamp
DecayedValueUnclamped(cfg, old, value) ==
    Mul(old, cfg.feedback_decay) + Mul(value, Scale - cfg.feedback_decay)

\* new_reliability / new_effectiveness: decayed average, then max(0, min(1, .))
DecayedValue(cfg, old, value) ==
    PyMax(0, PyMin(Scale, DecayedValueUnclamped(cfg, old, value)))

\* the JSON data _update_signal_model and _update_trader_model write back
FeedbackApplied(cfg, data, value) ==
    LET reliability == IF data.reliability # None THEN data.reliability[1]
                       ELSE Scale \div 2
        history == IF data.feedback_history # None THEN data.feedback_history[1]
                   ELSE <<>>
        appended == Append(history, [value |-> value, source |-> "unknown"])
    IN [data EXCEPT
           !.reliability = Some(DecayedValue(cfg, reliability, value)),
           !.feedback_history =
               Some(IF Len(appended) > FeedbackHistoryCap
                    THEN SliceLast(appended, FeedbackHistoryCap) ELSE appended)]

\* _update_signal_model: reads and writes the store, not the SemanticMemory
\* cache; symbol is <<>> when the feedback has none
SignalModelUpdated(db, cfg, symbol, value) ==
    IF symbol = None THEN db
    ELSE LET row == IF symbol[1] \in DOMAIN db THEN db[symbol[1]]
                    ELSE MarketKnowledgeCreated(symbol[1], EmptyData)
             market_data == FeedbackApplied(cfg, row.data, value)
         IN (symbol[1] :> MarketKnowledgeUpdated(row, [data |-> Some(market_data)]))
                @@ db

\* _update_trader_model leaving the store alone
TraderModelSkipped(db, cfg, trader_id, value) == db

\* _update_trader_model
TraderModelUpdated(db, cfg, trader_id, value) ==
    IF trader_id = None THEN db
    ELSE LET row == IF trader_id[1] \in DOMAIN db THEN db[trader_id[1]]
                    ELSE TraderProfileCreated(trader_id[1], EmptyData)
             profile_data == FeedbackApplied(cfg, row.data, value)
         IN (trader_id[1] :>
                TraderProfileUpdated(row, [NoUpdates EXCEPT !.data = Some(profile_data)]))
                @@ db

NoPatternUpdates ==
    [success_count |-> None, failure_count |-> None, effectiveness |-> None,
     data |-> None]

\* _update_strategy_model: nothing happens unless pattern_type and
\* pattern_key are given and the pattern is in the store
StrategyModelUpdated(rows, cfg, pattern_type, pattern_key, value) ==
    IF pattern_type = None \/ pattern_key = None THEN rows
    ELSE LET i == FirstPattern(rows, pattern_type[1], pattern_key[1])
         IN IF i = 0 THEN rows
            ELSE LET action_pattern == rows[i]
                     updates ==
                         [NoPatternUpdates EXCEPT
                             !.effectiveness =
                                 Some(DecayedValue(cfg, action_pattern.effectiveness,
                                                   value)),
                             !.success_count =
                                 Some(action_pattern.success_count
                                      + IF value > cfg.positive_threshold THEN 1 ELSE 0),
                             !.failure_count =
                                 Some(action_pattern.failure_count
                                      + IF /\ ~(value > cfg.positive_threshold)
                                           /\ value < cfg.negative_threshold
                                        THEN 1 ELSE 0)]
                 IN [rows EXCEPT ![i] = ActionPatternUpdated(action_pattern, updates)]

\* store_feedback / store_trade_outcome of the store are not in
\* database.py: the call appends the record or raises, and _store_feedback
\* and _store_trade_outcome swallow the exception
Stored(store, record, ok) == IF ok THEN Append(store, record) ELSE store

\* the if / elif chain of process_user_feedback dispatching a type that
\* is none of the three to the signal model
DispatchedByDefault(feedback_type, model) ==
    \/ feedback_type = model
    \/ model = "trade_signal"
       /\ feedback_type \notin {"trader_reliability", "strategy"}

\* the if / elif chain of process_user_feedback: a model is updated only
\* under its own feedback type
Dispatched(feedback_type, model) == feedback_type = model

\* _store_feedback and _store_trade_outcome returning nothing when the
\* store raises
StoredIdOrNone(record_id, ok) ==
    IF ok THEN [from |-> "store", id |-> record_id]
    ELSE [from |-> "none", id |-> 0]

\* what _store_feedback and _store_trade_outcome return: the id the store
\* gave, or the id of the record when the store raised
StoredId(record_id, ok) ==
    IF ok THEN [from |-> "store", id |-> record_id]
    ELSE [from |-> "record", id |-> record_id]

\* process_user_feedback, the store taking the record (ok) or raising, and
\* the store answering the reads and writes of the model updates
\* (reachable) or raising on the first of them, which the update swallows
UserFeedbackHandled(feedback_data, ok, reachable) ==
    LET normalized_value == NormalizedValue(feedback_data.value)
        feedback_record == [type |-> feedback_data.type, value |-> normalized_value,
                            source |-> "user"]
    IN /\ feedback_history' = Append(feedback_history, feedback_record)
       /\ feedback_store' = Stored(feedback_store, feedback_record, ok)
       /\ market_knowledge' =
              IF reachable /\ Dispatched(feedback_data.type, "trade_signal")
              THEN SignalModelUpdated(market_knowledge, fb_config,
                                      feedback_data.symbol, normalized_value)
              ELSE market_knowledge
       /\ trader_profiles' =
              IF reachable /\ Dispatched(feedback_data.type, "trader_reliability")
              THEN TraderModelUpdated(trader_profiles, fb_config,
                                      feedback_data.trader_id, normalized_value)
              ELSE trader_profiles
       /\ action_patterns' =
              IF reachable /\ Dispatched(feedback_data.type, "strategy")
              THEN StrategyModelUpdated(action_patterns, fb_config,
                                        feedback_data.pattern_type,
                                        feedback_data.pattern_key, normalized_value)
              ELSE action_patterns
       /\ UNCHANGED <<fb_config, trader_cache, market_cache, pattern_cache>>

\* process_user_feedback over a store that answers the model updates
UserFeedbackProcessed(feedback_data, ok) ==
    UserFeedbackHandled(feedback_data, ok, TRUE)

ProcessUserFeedback(feedback_data) ==
    /\ Len(feedback_history) < MaxFeedback
    /\ \E ok \in BOOLEAN : UserFeedbackProcessed(feedback_data, ok)

\* process_trade_outcome; the record kept is the outcome record, its reward
\* under value
TradeOutcomeHandled(trade_data, ok, reachable) ==
    LET reward == calculate_reward(trade_data.outcome, trade_data.profit_loss)
        outcome_record == [type |-> "trade_outcome", value |-> reward,
                           source |-> "system"]
    IN /\ feedback_history' = Append(feedback_history, outcome_record)
       /\ feedback_store' = Stored(feedback_store, outcome_record, ok)
       /\ market_knowledge' =
              IF reachable
              THEN SignalModelUpdated(market_knowledge, fb_config,
                                      Some(trade_data.symbol), reward)
              ELSE market_knowledge
       /\ trader_profiles' =
              IF reachable
              THEN TraderModelUpdated(trader_profiles, fb_config, trade_data.trader_id,
                                      reward)
              ELSE trader_profiles
       /\ UNCHANGED <<fb_config, action_patterns, trader_cache, market_cache,
                      pattern_cache>>

\* process_trade_outcome over a store that answers the model updates
TradeOutcomeProcessed(trade_data, ok) ==
    TradeOutcomeHandled(trade_data, ok, TRUE)

ProcessTradeOutcome(trade_data) ==
    /\ Len(feedback_history) < MaxFeedback
    /\ \E ok \in BOOLEAN : TradeOutcomeProcessed(trade_data, ok)

-----------------------------------------------------------------------------
(* ProceduralMemory *)

ProceduralConstructed == pattern_cache = <<>>

generate_pattern_key(pattern_data) == Md5(JsonDumps(pattern_data))

\* f"{pattern_type}:{pattern_key}"
CacheKey(pattern_type, pattern_key) == <<pattern_type, ":">> \o pattern_key

\* the dict store_pattern passes to create_action_pattern
SeedData(pattern_data, success) ==
    [success_count |-> IF success THEN 1 ELSE 0,
     failure_count |-> IF success THEN 0 ELSE 1,
     effectiveness |-> IF success THEN Scale ELSE 0,
     data |-> [pattern_data |-> pattern_data],
     pattern_data |-> None]

\* the updates store_pattern computes from the record it found
CountUpdates(existing_pattern, success) ==
    LET success_count == existing_pattern.success_count + (IF success THEN 1 ELSE 0)
        failure_count == existing_pattern.failure_count + (IF success THEN 0 ELSE 1)
        total == success_count + failure_count
    IN [success_count |-> Some(success_count),
        failure_count |-> Some(failure_count),
        effectiveness |-> IF total > 0 THEN Some((success_count * Scale) \div total)
                          ELSE None,
        data |-> Some([pattern_data |->
                          IF existing_pattern.data.pattern_data # None
                          THEN existing_pattern.data.pattern_data[1]
                          ELSE DictVal(<<>>)])]

\* store_pattern: the record is looked up, then updated or created, and the
\* cache takes what the store returned; when the store raises on the write
\* (~ok) nothing changes
PatternStored(rows, cache, pattern_type, pattern_data, success, ok) ==
    LET pattern_key == generate_pattern_key(pattern_data)
        cache_key == CacheKey(pattern_type, pattern_key)
        i == FirstPattern(rows, pattern_type, pattern_key)
    IN IF ~ok THEN [rows |-> rows, cache |-> cache]
       ELSE IF i # 0
       THEN LET existing_pattern == rows[i]
                updated_pattern ==
                    ActionPatternUpdated(existing_pattern,
                                         CountUpdates(existing_pattern, success))
            IN [rows |-> [rows EXCEPT ![i] = updated_pattern],
                cache |-> (cache_key :> updated_pattern) @@ cache]
       ELSE LET new_pattern ==
                    ActionPatternCreated(pattern_type, pattern_key,
                                         SeedData(pattern_data, success))
            IN [rows |-> Append(rows, new_pattern),
                cache |-> (cache_key :> new_pattern) @@ cache]

StorePattern(pattern_type, pattern_data, success) ==
    LET i == FirstPattern(action_patterns, pattern_type,
                          generate_pattern_key(pattern_data))
        stored == PatternStored(action_patterns, pattern_cache, pattern_type,
                                pattern_data, success, TRUE)
    IN /\ i # 0 => action_patterns[i].success_count
                       + action_patterns[i].failure_count < MaxObservations
       /\ action_patterns' = stored.rows
       /\ pattern_cache' = stored.cache

\* get_pattern: the cache first, then the store, caching what was found
GetPattern(pattern_type, pattern_key) ==
    LET cache_key == CacheKey(pattern_type, pattern_key)
        i == FirstPattern(action_patterns, pattern_type, pattern_key)
    IN /\ pattern_cache' =
              IF cache_key \notin DOMAIN pattern_cache /\ i # 0
              THEN (cache_key :> action_patterns[i]) @@ pattern_cache
              ELSE pattern_cache
       /\ UNCHANGED action_patterns

ClearCache ==
    /\ pattern_cache' = <<>>
    /\ UNCHANGED action_patterns

PatternTypes == {"tool_usage"}

\* a payload, and the same payload with its keys in the other order
PatternPayloads ==
    { DictVal(<< <<"action", "buy">>, <<"symbol", "AAPL">> >>),
      DictVal(<< <<"symbol", "AAPL">>, <<"action", "buy">> >>) }

-----------------------------------------------------------------------------
(* PatternRecognition._store_pattern.  A detected pattern is a dict with    *)
(* its type, its subject (a symbol or a trader), and the id and            *)
(* detected_at that the detection pass gave it.                             *)

PatternRecognitionConstructed ==
    /\ pr_pattern_cache = <<>>
    /\ pr_calls = <<>>

DetectedPatterns ==
    [type : {"high_success_symbol", "reliable_trader"}, subject : {"AAPL"},
     id : {"uuid1", "uuid2"}, detected_at : {"t1", "t2"}]

\* json.dumps(pattern, sort_keys=True)
PatternText(pattern) ==
    <<"{", "detected_at", ":", pattern.detected_at, ",", "id", ":", pattern.id, ",",
      "subject", ":", pattern.subject, ",", "type", ":", pattern.type, "}">>

\* f"{pattern_type}:{pattern_hash}"
DetectedPatternKey(pattern) == <<pattern.type, ":">> \o Md5(PatternText(pattern))

\* a _store_pattern that never finds the key in its cache
NeverCached(cache, pattern_key) == FALSE

\* pattern_key in self.pattern_cache
AlreadyCached(cache, pattern_key) == pattern_key \in DOMAIN cache

\* store_pattern of the store is not in database.py: the call appends the
\* pattern under its type and key, or raises and leaves the store as it was.
\* _store_pattern caches the pattern only after the call returned.
PRStorePattern(pattern) ==
    LET pattern_key == DetectedPatternKey(pattern)
    IN /\ Len(pr_calls) < MaxStored
       /\ IF AlreadyCached(pr_pattern_cache, pattern_key)
          THEN /\ pr_calls' = Append(pr_calls, "cached")
               /\ UNCHANGED <<detected_patterns, pr_pattern_cache>>
          ELSE \E ok \in BOOLEAN :
                  /\ pr_calls' = Append(pr_calls, IF ok THEN "stored" ELSE "failed")
                  /\ detected_patterns' =
                         Stored(detected_patterns,
                                [pattern_type |-> pattern.type,
                                 pattern_key |-> pattern_key, pattern |-> pattern],
                                ok)
                  /\ pr_pattern_cache' =
                         IF ok THEN (pattern_key :> pattern) @@ pr_pattern_cache
                         ELSE pr_pattern_cache

-----------------------------------------------------------------------------
(* Canonical keys of two payloads *)

\* dict payloads: one to three distinct fields in any insertion order
KeyValues == [action |-> {"buy", "sell"}, symbol |-> {"AAPL"}, tool |-> {"scan"}]

KeyPayloadItems ==
    { items \in UNION { [1 .. n -> (DOMAIN KeyValues) \X {"buy", "sell", "AAPL", "scan"}] :
                          n \in 1 .. 3 } :
        /\ \A i \in 1 .. Len(items) : items[i][2] \in KeyValues[items[i][1]]
        /\ \A i, j \in 1 .. Len(items) : i # j => items[i][1] # items[j][1] }

NoKeys == [pattern |-> None, state |-> None, action |-> None, entry |-> None]

KeysConstructed(p1, p2) ==
    /\ key_payloads = <<DictVal(p1), DictVal(p2)>>
    /\ key_results = NoKeys

\* _generate_pattern_key of both payloads
KeyPatterns ==
    /\ key_results.pattern = None
    /\ key_results' =
           [key_results EXCEPT
               !.pattern = Some(<<generate_pattern_key(key_payloads[1]),
                                  generate_pattern_key(key_payloads[2])>>)]
    /\ UNCHANGED key_payloads

\* _get_state_key of both payloads
KeyStates ==
    /\ key_results.state = None
    /\ key_results' =
           [key_results EXCEPT
               !.state = Some(<<get_state_key(key_payloads[1]),
                                get_state_key(key_payloads[2])>>)]
    /\ UNCHANGED key_payloads

\* _get_action_key of both payloads, and the Q-table key of each payload
\* taken as state and as action
KeyActions ==
    /\ key_results.action = None
    /\ key_results' =
           [key_results EXCEPT
               !.action = Some(<<get_action_key(key_payloads[1]),
                                 get_action_key(key_payloads[2])>>),
               !.entry =
                   Some(<<get_state_action_key(get_state_key(key_payloads[1]),
                                               get_action_key(key_payloads[1])),
                          get_state_action_key(get_state_key(key_payloads[2]),
                                               get_action_key(key_payloads[2]))>>)]
    /\ UNCHANGED key_payloads

-----------------------------------------------------------------------------
(* EpisodicMemory: the vector index is the sequence of the experiences      *)
(* upserted, each under a fresh id.                                         *)

EpisodicConstructed == episodic_store = <<>>

\* store_experience: embed, upsert; either call may raise (~ok)
ExperienceStored(store, experience, ok) ==
    IF ok THEN Append(store, experience) ELSE store

\* retrieve_similar_experiences: the top_k matches of the index; the ranking
\* is the index's own, here the stored order
SimilarExperiences(store, limit) == SliceFirst(store, limit)

-----------------------------------------------------------------------------
(* ProceduralMemory.get_relevant_patterns *)

\* MemoryConfig.max_procedural_patterns
MaxProceduralPatterns == 3

InsertByEffectiveness(p, sorted) ==
    LET before == { i \in 1 .. Len(sorted) :
                      \A j \in 1 .. i : sorted[j].effectiveness >= p.effectiveness }
        k == IF before = {} THEN 0 ELSE CHOOSE i \in before : \A j \in before : j <= i
    IN SubSeq(sorted, 1, k) \o <<p>> \o SubSeq(sorted, k + 1, Len(sorted))

RECURSIVE SortByEffectiveness(_)
\* order_by(effectiveness.desc()) and sort(key=effectiveness, reverse=True)
SortByEffectiveness(patterns) ==
    IF patterns = <<>> THEN <<>>
    ELSE InsertByEffectiveness(Last(patterns),
                               SortByEffectiveness(SubSeq(patterns, 1, Len(patterns) - 1)))

\* get_most_effective_patterns: limit*2 rows of the type from the store,
\* those at or above min_effectiveness, best first, limit of them
MostEffectivePatterns(rows, pattern_type, min_effectiveness, limit) ==
    LET of_type == SelectSeq(rows, LAMBDA r : r.pattern_type = pattern_type)
        patterns == SliceFirst(SortByEffectiveness(of_type), limit * 2)
        effective_patterns ==
            SelectSeq(patterns, LAMBDA p : p.effectiveness >= min_effectiveness)
    IN SliceFirst(SortByEffectiveness(effective_patterns), limit)

RECURSIVE PatternsOfTypes(_, _, _)
PatternsOfTypes(rows, pattern_types, limit) ==
    IF pattern_types = <<>> THEN <<>>
    ELSE MostEffectivePatterns(rows, Head(pattern_types), (6 * Scale) \div 10, limit)
         \o PatternsOfTypes(rows, Tail(pattern_types), limit)

\* get_relevant_patterns: the types f"trader:{trader_id}", f"symbol:{symbol}"
\* and f"action:{action}" of what the context holds, then "general", each
\* with min_effectiveness 0.6
RelevantPatterns(rows, context, limit) ==
    LET pattern_types ==
            (IF context.isdict /\ context.trader_id # None
             THEN <<("trader1" :> "trader:trader1")[context.trader_id[1]]>> ELSE <<>>)
            \o (IF context.isdict /\ context.symbol # None
                THEN <<("AAPL" :> "symbol:AAPL")[context.symbol[1]]>> ELSE <<>>)
            \o (IF context.isdict /\ context.action # None
                THEN <<("buy" :> "action:buy")[context.action[1]]>> ELSE <<>>)
            \o <<"general">>
    IN SliceFirst(SortByEffectiveness(PatternsOfTypes(rows, pattern_types, limit)),
                  limit)

-----------------------------------------------------------------------------
(* MemoryManager.  A call of a tier raises when the collaborator behind it  *)
(* raises (the embedding service, the vector index, the database); fail     *)
(* names the call that does, "none" when none does.                         *)

\* how a call ended: whether it raised, at which tier call, the tier writes
\* the arguments called for and those that completed, the context returned
NoCall ==
    [op |-> "none", raised |-> FALSE, failed |-> "none", due |-> {},
     applied |-> {}, context |-> None]

\* the options: max_history of the agent's configuration and
\* max_episodic_memories of its memory configuration
DefaultMaxHistory == 10

\* MemoryManager.__init__ under the options cfg:
\* WorkingMemory(max_history=config.max_episodic_memories)
MemoryManagerConfigured(cfg) ==
    /\ enhanced_config = cfg
    /\ max_history = cfg.max_episodic_memories

MMConstructedUnder(configs) ==
    /\ EpisodicConstructed
    /\ mm_result = NoCall
    /\ \E cfg \in configs : MemoryManagerConfigured(cfg)

MMConstructed ==
    MMConstructedUnder([max_history : {DefaultMaxHistory},
                        max_episodic_memories : 0 .. MaxCapacity])

\* input_data: a dict with some of trader_id, symbol, action, or a string
MemoryInputs ==
    { [isdict |-> TRUE, trader_id |-> Some("trader1"), symbol |-> Some("AAPL"),
       action |-> Some("buy")],
      [isdict |-> TRUE, trader_id |-> Some("trader1"), symbol |-> None,
       action |-> None],
      [isdict |-> FALSE, trader_id |-> None, symbol |-> None, action |-> None] }

\* one interaction: (input_data, response, result)
MemoryTurns ==
    { [input_data |-> [isdict |-> TRUE, trader_id |-> Some("trader1"),
                       symbol |-> Some("AAPL"), action |-> Some("buy")],
       response |-> [isdict |-> TRUE, action_sequence |-> None, tool |-> Some("scan")],
       result |-> [isdict |-> TRUE, outcome |-> Some("success"), success |-> Some(TRUE)]],
      [input_data |-> [isdict |-> TRUE, trader_id |-> Some("trader1"),
                       symbol |-> None, action |-> None],
       response |-> [isdict |-> TRUE, action_sequence |-> Some(<<"scan_then_buy">>),
                     tool |-> None],
       result |-> [isdict |-> TRUE, outcome |-> Some("failure"), success |-> None]],
      [input_data |-> [isdict |-> FALSE, trader_id |-> None, symbol |-> None,
                       action |-> None],
       response |-> [isdict |-> FALSE, action_sequence |-> None, tool |-> None],
       result |-> [isdict |-> FALSE, outcome |-> None, success |-> None]] }

\* the tier reads of get_context
ContextReads == {"episodic", "trader", "market", "procedural"}

\* get_context: the working tier, then the similarity query, the trader and
\* market lookups the input calls for, the relevant patterns; nothing
\* catches, so the call that raises ends get_context with its exception.  A
\* cached profile or knowledge is returned without calling the store.
GetContext(current_input, fail) ==
    LET has_trader == current_input.isdict /\ current_input.trader_id # None
        has_symbol == current_input.isdict /\ current_input.symbol # None
        look_trader == has_trader /\ fail \notin {"episodic", "trader"}
        look_market == has_symbol /\ fail \notin {"episodic", "trader", "market"}
        got_trader == TraderFetched(trader_profiles, trader_cache,
                                    current_input.trader_id[1])
        got_market == MarketFetched(market_knowledge, market_cache,
                                    current_input.symbol[1])
        enhanced_context ==
            [working_memory |-> conversation_history,
             similar_experiences |-> SimilarExperiences(episodic_store, max_history),
             trader_info |-> IF has_trader THEN Some(got_trader.profile) ELSE None,
             market_info |-> IF has_symbol THEN Some(got_market.knowledge) ELSE None,
             action_patterns |->
                 RelevantPatterns(action_patterns, current_input,
                                  MaxProceduralPatterns)]
    IN /\ fail \in {"none"} \cup ContextReads
       /\ fail = "trader" =>
              has_trader /\ current_input.trader_id[1] \notin DOMAIN trader_cache
       /\ fail = "market" =>
              has_symbol /\ current_input.symbol[1] \notin DOMAIN market_cache
       /\ trader_profiles' = IF look_trader THEN got_trader.db ELSE trader_profiles
       /\ trader_cache' = IF look_trader THEN got_trader.cache ELSE trader_cache
       /\ market_knowledge' = IF look_market THEN got_market.db ELSE market_knowledge
       /\ market_cache' = IF look_market THEN got_market.cache ELSE market_cache
       /\ mm_result' =
              [op |-> "get_context", raised |-> fail # "none", failed |-> fail,
               due |-> {}, applied |-> {},
               context |-> IF fail = "none" THEN Some(enhanced_context) ELSE None]
       /\ UNCHANGED <<wmVars, procVars, episodic_store, enhanced_config>>

\* the tier writes of update_memories, in the order it makes them
MemoryWrites ==
    <<"episodic", "reliability", "trade_history", "signal", "action_sequence",
      "tool_usage">>

\* the place of a write in that order, past the last one for "none"
WriteIndex(step) ==
    IF step = "none" THEN Len(MemoryWrites) + 1
    ELSE CHOOSE i \in 1 .. Len(MemoryWrites) : MemoryWrites[i] = step

\* the writes the arguments call for
DueWrites(input_data, response, result) ==
    {"episodic"}
    \cup (IF /\ input_data.isdict /\ input_data.trader_id # None
             /\ result.isdict /\ result.outcome # None
          THEN {"reliability"} ELSE {})
    \cup (IF /\ input_data.isdict /\ input_data.trader_id # None
             /\ input_data.symbol # None /\ input_data.action # None
          THEN {"trade_history"} ELSE {})
    \cup (IF input_data.isdict /\ input_data.symbol # None /\ input_data.action # None
          THEN {"signal"} ELSE {})
    \cup (IF response.isdict /\ response.action_sequence # None
          THEN {"action_sequence"} ELSE {})
    \cup (IF response.isdict /\ response.tool # None THEN {"tool_usage"} ELSE {})

\* update_memories without the bound of the model: the working tier first,
\* then each write in turn; nothing catches, so the write that raises ends
\* the call and the writes after it are not made.  tool_data is the tool
\* with its parameters, always {} here and left out of the key.
MemoriesUpdated(input_data, response, result, fail) ==
    LET due == DueWrites(input_data, response, result)
        made(step) == step \in due /\ WriteIndex(step) <= WriteIndex(fail)
        ok(step) == step # fail
        success == result.isdict /\ result.success = Some(TRUE)
        experience == [input |-> input_data, response |-> response, result |-> result]
        trader0 == [db |-> trader_profiles, cache |-> trader_cache]
        trader1 == IF made("reliability")
                   THEN ReliabilityWritten(trader0.db, trader0.cache,
                                           input_data.trader_id[1], result.outcome[1],
                                           ok("reliability"))
                   ELSE trader0
        trader2 == IF made("trade_history")
                   THEN TradeAdded(trader1.db, trader1.cache, input_data.trader_id[1],
                                   [symbol |-> input_data.symbol[1],
                                    action |-> input_data.action[1],
                                    result |-> result],
                                   ok("trade_history"))
                   ELSE trader1
        market0 == [db |-> market_knowledge, cache |-> market_cache]
        market1 == IF made("signal")
                   THEN SignalAdded(market0.db, market0.cache, input_data.symbol[1],
                                    [trader_id |-> input_data.trader_id,
                                     action |-> input_data.action[1],
                                     result |-> result],
                                    ok("signal"))
                   ELSE market0
        pattern0 == [rows |-> action_patterns, cache |-> pattern_cache]
        pattern1 == IF made("action_sequence")
                    THEN PatternStored(pattern0.rows, pattern0.cache, "action_sequence",
                                       StrVal(response.action_sequence[1]), success,
                                       ok("action_sequence"))
                    ELSE pattern0
        pattern2 == IF made("tool_usage")
                    THEN PatternStored(pattern1.rows, pattern1.cache, "tool_usage",
                                       DictVal(<< <<"tool", response.tool[1]>> >>),
                                       success, ok("tool_usage"))
                    ELSE pattern1
    IN /\ fail = "none" \/ fail \in due
       /\ WMRecorded([input_data |-> input_data, response |-> response,
                      result |-> result])
       /\ episodic_store' = ExperienceStored(episodic_store, experience, ok("episodic"))
       /\ trader_profiles' = trader2.db
       /\ trader_cache' = trader2.cache
       /\ market_knowledge' = market1.db
       /\ market_cache' = market1.cache
       /\ action_patterns' = pattern2.rows
       /\ pattern_cache' = pattern2.cache
       /\ mm_result' =
              [op |-> "update_memories", raised |-> fail # "none", failed |-> fail,
               due |-> due,
               applied |-> { step \in due : WriteIndex(step) < WriteIndex(fail) },
               context |-> None]
       /\ UNCHANGED enhanced_config

UpdateMemories(input_data, response, result, fail) ==
    /\ wm_clock < MaxMemoryTurns
    /\ MemoriesUpdated(input_data, response, result, fail)

-----------------------------------------------------------------------------
(* LearningTaatAgent.process_input: one turn, a step per awaited call.  The *)
(* perception, cognition and action modules are collaborators: each        *)
(* returns a value or raises, and an exception ends the turn.              *)

NoTurn == [pc |-> "idle", input |-> None, response |-> None, result |-> None]

AgentConstructed ==
    /\ agent_turn = NoTurn
    /\ turn_log = <<>>

\* text inputs, what cognition answers, what the action module returns
TurnInputs == {"buy AAPL"}
TurnResponses == { [isdict |-> TRUE, action_sequence |-> None, tool |-> Some("scan")] }
TurnResults ==
    { [isdict |-> TRUE, outcome |-> Some("success"), success |-> Some(TRUE)],
      [isdict |-> TRUE, outcome |-> None, success |-> Some(FALSE)] }

\* _process_text_input: {"type": "text", "content": text, "metadata": ...};
\* as the memory tiers see it, and as the dict whose key an engine computes
\* (metadata left out)
ProcessedInput == [isdict |-> TRUE, trader_id |-> None, symbol |-> None, action |-> None]
ProcessedState(text) == DictVal(<< <<"type", "text">>, <<"content", text>> >>)
ResponseValue(response) == DictVal(<< <<"tool", response.tool[1]>> >>)
ResultValue(result) ==
    DictVal(IF result.outcome # None THEN << <<"outcome", result.outcome[1]>> >>
            ELSE <<>>)

\* "outcome" in result, always (a turn that learns from every result)
HasOutcomeAlways(result) == TRUE

\* "outcome" in result
HasOutcome(result) == result.outcome # None

\* the step ended: the call is logged and process_input moves on, or raises
Stepped(call, pc, ok) ==
    /\ turn_log' = Append(turn_log, call)
    /\ agent_turn' = [agent_turn EXCEPT !.pc = IF ok THEN pc ELSE "raised"]

\* 1. perception; a new turn starts once the last one returned or raised
TurnPerception(text, ok) ==
    /\ agent_turn.pc \in {"idle", "done", "raised"}
    /\ wm_clock < MaxMemoryTurns
    /\ Len(feedback_history) < MaxFeedback
    /\ rl_updates < MaxUpdates
    /\ turn_log' = <<"perception">>
    /\ agent_turn' = [NoTurn EXCEPT !.pc = IF ok THEN "get_context" ELSE "raised",
                              !.input = Some(text)]
    /\ UNCHANGED <<wmVars, rlVars, semVars, procVars, fbVars, patVars, keyVars, mmVars, loopVars, sideVars>>

\* 2. memory_manager.get_context
TurnContext(fail) ==
    /\ agent_turn.pc = "get_context"
    /\ GetContext(ProcessedInput, fail)
    /\ Stepped("get_context", "relevant_patterns", fail = "none")
    /\ UNCHANGED <<rlVars, fbVars, patVars, keyVars, loopVars, sideVars>>

\* 3. learning_manager.get_relevant_patterns: a read, its errors swallowed
TurnPatterns ==
    /\ agent_turn.pc = "relevant_patterns"
    /\ Stepped("relevant_patterns", "cognition", TRUE)
    /\ UNCHANGED <<wmVars, rlVars, semVars, procVars, fbVars, patVars, keyVars, mmVars, loopVars, sideVars>>

\* 4. cognition.process
TurnCognition(response, ok) ==
    /\ agent_turn.pc = "cognition"
    /\ turn_log' = Append(turn_log, "cognition")
    /\ agent_turn' = [agent_turn EXCEPT
                         !.pc = IF ok THEN "action" ELSE "raised",
                         !.response = IF ok THEN Some(response) ELSE None]
    /\ UNCHANGED <<wmVars, rlVars, semVars, procVars, fbVars, patVars, keyVars, mmVars, loopVars, sideVars>>

\* 5. action.execute
TurnAction(result, ok) ==
    /\ agent_turn.pc = "action"
    /\ turn_log' = Append(turn_log, "action")
    /\ agent_turn' = [agent_turn EXCEPT
                         !.pc = IF ok THEN "update_memories" ELSE "raised",
                         !.result = IF ok THEN Some(result) ELSE None]
    /\ UNCHANGED <<wmVars, rlVars, semVars, procVars, fbVars, patVars, keyVars, mmVars, loopVars, sideVars>>

\* 6. memory_manager.update_memories
TurnMemory(fail) ==
    /\ agent_turn.pc = "update_memories"
    /\ MemoriesUpdated(ProcessedInput, agent_turn.response[1],
                       agent_turn.result[1], fail)
    /\ Stepped("update_memories", "process_outcome", fail = "none")
    /\ UNCHANGED <<rlVars, fbVars, patVars, keyVars, loopVars, sideVars>>

\* 7. learning_manager.process_outcome when the result has an outcome: the
\* outcome data has no symbol and no trader_id, so the trade outcome is
\* processed for the symbol "" and profit_loss 0, and the engine is updated
\* with the reward computed; then process_input returns
TurnLearning ==
    /\ agent_turn.pc = "process_outcome"
    /\ IF HasOutcome(agent_turn.result[1])
       THEN LET outcome == IF agent_turn.result[1].outcome # None
                           THEN agent_turn.result[1].outcome[1] ELSE "unknown"
            IN /\ ProcessTradeOutcome([symbol |-> "", outcome |-> outcome,
                                       profit_loss |-> 0, trader_id |-> None])
               /\ UpdateQValue(1, ProcessedState(agent_turn.input[1]),
                               ResponseValue(agent_turn.response[1]),
                               calculate_reward(outcome, 0),
                               ResultValue(agent_turn.result[1]))
               /\ Stepped("process_outcome", "done", TRUE)
               /\ UNCHANGED <<wmVars, patVars, keyVars, mmVars, loopVars, sideVars>>
       ELSE /\ agent_turn' = [agent_turn EXCEPT !.pc = "done"]
            /\ UNCHANGED <<wmVars, rlVars, semVars, procVars, fbVars, patVars,
                           keyVars, mmVars, loopVars, sideVars, turn_log>>

-----------------------------------------------------------------------------
(* LearningManager: run_learning_cycle and the background loop.  A task is  *)
(* a coroutine suspended at an await; the event loop resumes it with what   *)
(* the awaited call returned or raised, or, once cancel() was called on it, *)
(* with CancelledError, which is not an Exception.  Every call the cycle    *)
(* awaits is taken as a point where the task can be suspended.              *)

NoResults ==
    [metrics |-> FALSE, performance_report |-> FALSE, patterns |-> FALSE,
     error |-> FALSE]

\* asyncio.create_task(self._background_learning_loop()): not yet run
TaskCreated ==
    [pc |-> "created", must_cancel |-> FALSE, results |-> NoResults, pending |-> <<>>]

LearningManagerConstructed ==
    /\ background_task = None
    /\ tasks = <<>>
    /\ cycle_return = None
    /\ loop_call = [op |-> "none", count |-> 0]

\* the calls run_learning_cycle awaits, in order
CycleCalls ==
    <<"metrics", "should_report", "report", "trades", "signals", "feedback", "store">>

\* a start that never finds a task
NotStartedAlways(task) == TRUE

\* self.background_task is None
NotStarted(task) == task = None

\* start_background_learning
StartBackgroundLearning ==
    /\ loop_call.count < MaxLoopCalls
    /\ NotStarted(background_task) => Len(tasks) < MaxTasks
    /\ loop_call' = [op |-> "start", count |-> loop_call.count + 1]
    /\ IF NotStarted(background_task)
       THEN /\ tasks' = Append(tasks, TaskCreated)
            /\ background_task' = Some(Len(tasks) + 1)
       ELSE UNCHANGED <<tasks, background_task>>
    /\ UNCHANGED <<cycle_return, procVars>>

\* stop_background_learning: cancel() asks for the cancellation, the task
\* sees it when it is next resumed
StopBackgroundLearning ==
    /\ loop_call.count < MaxLoopCalls
    /\ loop_call' = [op |-> "stop", count |-> loop_call.count + 1]
    /\ IF background_task # None
       THEN /\ tasks' = [tasks EXCEPT ![background_task[1]].must_cancel =
                            tasks[background_task[1]].pc # "done"]
            /\ background_task' = None
       ELSE UNCHANGED <<tasks, background_task>>
    /\ UNCHANGED <<cycle_return, procVars>>

\* a pattern a miner detected: a dict with a fresh id
MinedPattern(n) ==
    DictVal(<< <<"id", <<"uuid1", "uuid2", "uuid3">>[n]>>,
               <<"type", "high_success_symbol">>, <<"symbol", "AAPL">> >>)

\* what a detect_patterns call can return while the run has patterns left
MinedLists(stored, pending) ==
    IF stored + pending < MaxMined
    THEN {<<>>, <<MinedPattern(stored + pending + 1)>>}
    ELSE {<<>>}

\* a cycle whose `except Exception` takes the CancelledError as well
AfterCancelSwallowed(pc) ==
    IF pc \in Range(CycleCalls) THEN "sleep" ELSE "done"

\* where the task goes when CancelledError is thrown into it: out of the
\* cycle to the loop's `except asyncio.CancelledError: break`, or out of the
\* back-off sleep and the coroutine
AfterCancel(pc) == "done"

\* a handler that returns the error alone
CycleFailedAlone(results) == [NoResults EXCEPT !.error = TRUE]

\* run_learning_cycle's `except Exception`: the error is recorded next to
\* what results already holds
CycleFailed(results) == [results EXCEPT !.error = TRUE]

\* a loop that gives up on an exception
AfterLoopErrorStop == "done"

\* the loop's `except Exception`: log, then await asyncio.sleep(60)
AfterLoopError == "backoff"

\* run_learning_cycle resumed at the call it awaits with what the call
\* returned (ok, and for should_generate_report its answer, for
\* detect_patterns the list mined) or raised: the task as it is suspended
\* next, the action patterns, and the map returned if the cycle returned
CycleResumed(task, rows, cache, ok, answer, mined) ==
    LET returned(results, at) ==
            [task |-> [task EXCEPT !.pc = "sleep", !.results = results,
                                   !.pending = <<>>],
             rows |-> rows, cache |-> cache,
             return |-> Some([results |-> results, failed_at |-> at])]
        suspended(pc, results, pending) ==
            [task |-> [task EXCEPT !.pc = pc, !.results = results,
                                   !.pending = pending],
             rows |-> rows, cache |-> cache, return |-> None]
        results == task.results
    IN IF ~ok THEN returned(CycleFailed(results), task.pc)
       ELSE CASE task.pc = "metrics" ->
                     suspended("should_report", [results EXCEPT !.metrics = TRUE], <<>>)
              [] task.pc = "should_report" ->
                     suspended(IF answer THEN "report" ELSE "trades", results, <<>>)
              [] task.pc = "report" ->
                     suspended("trades", [results EXCEPT !.performance_report = TRUE],
                               <<>>)
              [] task.pc = "trades" ->
                     suspended("signals", results, task.pending \o mined)
              [] task.pc = "signals" ->
                     suspended("feedback", results, task.pending \o mined)
              [] task.pc = "feedback" ->
                     LET all == task.pending \o mined
                         patterns == [results EXCEPT !.patterns = TRUE]
                     IN IF all = <<>> THEN returned(patterns, "none")
                        ELSE suspended("store", patterns, all)
              [] task.pc = "store" ->
                     LET stored == PatternStored(rows, cache, "high_success_symbol",
                                                 Head(task.pending), TRUE, TRUE)
                         left == Tail(task.pending)
                     IN IF left = <<>>
                        THEN [returned(results, "none") EXCEPT
                                 !.rows = stored.rows, !.cache = stored.cache]
                        ELSE [suspended("store", results, left) EXCEPT
                                 !.rows = stored.rows, !.cache = stored.cache]

\* _background_learning_loop: the task t is resumed
BackgroundLearningLoop(t, ok, answer, mined) ==
    LET task == tasks[t]
        cycle == CycleResumed(task, action_patterns, pattern_cache, ok, answer, mined)
        begun == [task EXCEPT !.pc = "metrics", !.results = NoResults,
                              !.pending = <<>>]
    IN /\ t \in 1 .. Len(tasks)
       /\ task.pc # "done"
       /\ task.pc \notin {"trades", "signals", "feedback"} => mined = <<>>
       /\ task.pc # "should_report" => answer
       /\ task.pc \in {"created", "backoff"} => ok
       /\ IF task.must_cancel
          THEN /\ tasks' = [tasks EXCEPT ![t].pc = AfterCancel(task.pc),
                                         ![t].must_cancel = FALSE]
               /\ UNCHANGED <<cycle_return, procVars>>
          ELSE IF task.pc \in Range(CycleCalls)
          THEN /\ tasks' = [tasks EXCEPT ![t] = cycle.task]
               /\ action_patterns' = cycle.rows
               /\ pattern_cache' = cycle.cache
               /\ cycle_return' = IF cycle.return # None THEN cycle.return
                                  ELSE cycle_return
          ELSE /\ tasks' = [tasks EXCEPT ![t] =
                               IF task.pc = "sleep" /\ ~ok
                               THEN [task EXCEPT !.pc = AfterLoopError]
                               ELSE begun]
               /\ UNCHANGED <<cycle_return, procVars>>
       /\ UNCHANGED <<background_task, loop_call>>

-----------------------------------------------------------------------------
(* ProceduralMemory.store_pattern called by the foreground turn             *)
(* (update_memories) and by the background cycle (run_learning_cycle) on    *)
(* one event loop.  The call suspends at its persistence calls: it reads    *)
(* the record (get_action_pattern), and when it is resumed it writes         *)
(* (update_action_pattern or create_action_pattern) what it computed from    *)
(* the record it read.  Nothing in store_pattern or in its callers holds a   *)
(* lock across the two.                                                      *)

StoreCallers == {"update_memories", "run_learning_cycle"}

\* the pattern both callers store
SharedPatternType == <<"tool_usage">>
SharedPatternData == DictVal(<< <<"tool", "scan">> >>)

StoreCallIdle == [pc |-> "idle", success |-> FALSE, existing_pattern |-> None]

StoreCallsIdle == store_calls = [c \in StoreCallers |-> StoreCallIdle]

\* update_memories passes result.get("success", False), run_learning_cycle
\* passes success=True
SuccessArguments(c) == IF c = "run_learning_cycle" THEN {TRUE} ELSE BOOLEAN

\* store_pattern up to its first suspension: the key is computed and the
\* record looked up; to_dict() gives the caller a copy of the row
StorePatternRead(c, success) ==
    LET i == FirstPattern(action_patterns, SharedPatternType,
                          generate_pattern_key(SharedPatternData))
    IN /\ store_calls[c].pc = "idle"
       /\ i # 0 => action_patterns[i].success_count
                       + action_patterns[i].failure_count < MaxObservations
       /\ store_calls' =
              [store_calls EXCEPT ![c] =
                  [pc |-> "read", success |-> success,
                   existing_pattern |-> IF i = 0 THEN None
                                        ELSE Some(action_patterns[i])]]
       /\ UNCHANGED procVars

\* store_pattern from its resumption to its return: the updates computed from
\* the copy are written to the row the store finds now, or the record is
\* created when none was found at the read; the cache takes what the store
\* returned
StorePatternWritten(c) ==
    LET call == store_calls[c]
        pattern_key == generate_pattern_key(SharedPatternData)
        cache_key == CacheKey(SharedPatternType, pattern_key)
        i == FirstPattern(action_patterns, SharedPatternType, pattern_key)
    IN /\ call.pc = "read"
       /\ IF call.existing_pattern # None
          THEN LET updated_pattern ==
                       ActionPatternUpdated(
                           action_patterns[i],
                           CountUpdates(call.existing_pattern[1], call.success))
               IN /\ action_patterns' = [action_patterns EXCEPT ![i] = updated_pattern]
                  /\ pattern_cache' = (cache_key :> updated_pattern) @@ pattern_cache
          ELSE LET new_pattern ==
                       ActionPatternCreated(SharedPatternType, pattern_key,
                                            SeedData(SharedPatternData, call.success))
               IN /\ action_patterns' = Append(action_patterns, new_pattern)
                  /\ pattern_cache' = (cache_key :> new_pattern) @@ pattern_cache
       /\ store_calls' = [store_calls EXCEPT ![c].pc = "done"]

\* both calls have returned; the next turn and the next cycle call again
StoreCallsReturned ==
    /\ \A c \in StoreCallers : store_calls[c].pc = "done"
    /\ store_calls' = [c \in StoreCallers |-> StoreCallIdle]
    /\ UNCHANGED procVars

-----------------------------------------------------------------------------
(* PerformanceTracker.calculate_metrics.  get_trade_outcomes and            *)
(* store_metrics are calls on the store: the first returns the outcome      *)
(* records or raises, the second appends the snapshot or raises, and the    *)
(* tracker swallows either exception.  A profit or loss is an amount in     *)
(* whole units; rates and averages are fixed-point.                         *)

\* PerformanceConfig: the defaults, and a tracker with a small window
\* PerformanceConfig; report_frequency is in hours
DefaultPerformanceConfig ==
    [metrics_window_size |-> 100, min_sample_size |-> 5, report_frequency |-> 24]

PerformanceConfigs ==
    { DefaultPerformanceConfig,
      [metrics_window_size |-> 1, min_sample_size |-> 2, report_frequency |-> 2] }

\* no run_learning_cycle call made yet
NoCycle == [cycles |-> 0, at |-> 0, performance_report |-> FALSE, error |-> FALSE]

\* PerformanceTracker.__init__ sets last_report_time = None; the clock
\* starts at hour 0
CycleConstructed ==
    /\ utc_now = 0
    /\ last_report_time = None
    /\ report_store = <<>>
    /\ cycle_log = NoCycle

NoMetrics == [status |-> "none", read |-> <<>>, total_trades |-> 0,
              min_sample_size |-> None, metrics |-> None]

PerformanceConstructed(cfg) ==
    /\ perf_config = cfg
    /\ metrics_history = <<>>
    /\ metrics_store = <<>>
    /\ perf_calls = 0
    /\ perf_result = NoMetrics

\* o.get("profit_loss", 0)
ProfitLoss(o) == IF o.profit_loss # None THEN o.profit_loss[1] ELSE 0

\* sum(1 for o in outcomes if o.get("outcome") == outcome)
CountOutcomes(outcomes, outcome) ==
    Cardinality({ i \in 1 .. Len(outcomes) : outcomes[i].outcome = Some(outcome) })

\* every amount summed, whatever its sign
RECURSIVE SumUnsigned(_, _)
SumUnsigned(outcomes, gains) ==
    IF outcomes = <<>> THEN 0
    ELSE ProfitLoss(Head(outcomes)) + SumUnsigned(Tail(outcomes), gains)

\* sum(o.get("profit_loss", 0) for o in outcomes if o.get("profit_loss", 0) > 0),
\* or < 0 for the losses
RECURSIVE SumProfitLoss(_, _)
SumProfitLoss(outcomes, gains) ==
    IF outcomes = <<>> THEN 0
    ELSE LET amount == ProfitLoss(Head(outcomes))
             counted == IF gains THEN amount > 0 ELSE amount < 0
         IN (IF counted THEN amount ELSE 0) + SumProfitLoss(Tail(outcomes), gains)

\* the metrics record; profit_factor is <<>> for float('inf')
MetricsOf(cfg, outcomes) ==
    LET total_trades == Len(outcomes)
        successful_trades == CountOutcomes(outcomes, "success")
        failed_trades == CountOutcomes(outcomes, "failure")
        total_profit == SumProfitLoss(outcomes, TRUE)
        total_loss == SumProfitLoss(outcomes, FALSE)
    IN [total_trades |-> total_trades,
        successful_trades |-> successful_trades,
        failed_trades |-> failed_trades,
        neutral_trades |-> total_trades - successful_trades - failed_trades,
        success_rate |-> IF total_trades > 0
                         THEN (successful_trades * Scale) \div total_trades ELSE 0,
        total_profit |-> total_profit,
        total_loss |-> total_loss,
        net_profit |-> total_profit + total_loss,
        avg_profit_per_trade |-> IF successful_trades > 0
                                 THEN (total_profit * Scale) \div successful_trades
                                 ELSE 0,
        avg_loss_per_trade |-> IF failed_trades > 0
                               THEN -(((-total_loss) * Scale) \div failed_trades)
                               ELSE 0,
        profit_factor |-> IF total_loss # 0
                          THEN Some((total_profit * Scale) \div (-total_loss))
                          ELSE None,
        confidence |-> PyMin(Scale, (total_trades * Scale)
                                        \div cfg.metrics_window_size)]

\* the check left out
EnoughAlways(total_trades, min_sample_size) == FALSE

\* if total_trades < self.min_sample_size
InsufficientData(total_trades, min_sample_size) == total_trades < min_sample_size

\* the history never cut
HistoryUnlimited(history, window) == history

\* if len(self.metrics_history) > self.metrics_window_size:
\*     self.metrics_history = self.metrics_history[-self.metrics_window_size:]
HistoryLimited(history, window) ==
    IF Len(history) > window THEN SliceLast(history, window) ELSE history

\* calculate_metrics: the outcomes are read (none when the store raises);
\* too few give the sentinel and nothing else happens; otherwise the record
\* is appended to the history, the history cut to the window, and the
\* snapshot stored (unless the store raises); the snapshot's id is the
\* number of the call
MetricsCalculated(cfg, tracker, outcomes, stored) ==
    LET total_trades == Len(outcomes)
        metrics == MetricsOf(cfg, outcomes) @@ [id |-> tracker.perf_calls + 1]
        appended == Append(tracker.metrics_history, metrics)
    IN IF InsufficientData(total_trades, cfg.min_sample_size)
       THEN [tracker EXCEPT
                !.perf_calls = @ + 1,
                !.perf_result =
                    [status |-> "insufficient_data", read |-> outcomes,
                     total_trades |-> total_trades,
                     min_sample_size |-> Some(cfg.min_sample_size),
                     metrics |-> None]]
       ELSE [metrics_history |-> HistoryLimited(appended, cfg.metrics_window_size),
             metrics_store |-> Stored(tracker.metrics_store, metrics, stored),
             perf_calls |-> tracker.perf_calls + 1,
             perf_result |->
                 [status |-> "calculated", read |-> outcomes,
                  total_trades |-> total_trades, min_sample_size |-> None,
                  metrics |-> Some(metrics)]]

\* the PerformanceTracker as it stands
Tracker ==
    [metrics_history |-> metrics_history, metrics_store |-> metrics_store,
     perf_calls |-> perf_calls, perf_result |-> perf_result]

CalculateMetrics(fetched, stored) ==
    LET after == MetricsCalculated(perf_config, Tracker,
                                   IF fetched THEN trade_outcomes ELSE <<>>, stored)
    IN /\ perf_calls < MaxCalculations
       /\ metrics_history' = after.metrics_history
       /\ metrics_store' = after.metrics_store
       /\ perf_calls' = after.perf_calls
       /\ perf_result' = after.perf_result
       /\ UNCHANGED <<perf_config, trade_outcomes>>

-----------------------------------------------------------------------------
(* PatternRecognition.detect_patterns.  A trade record has an outcome and,  *)
(* each optional, a symbol, a trader_id and an action.  The signals and the *)
(* feedback the store returns are empty here, so the passes over them find  *)
(* nothing.  get_trade_outcomes returns the records or raises, and the      *)
(* detector then reads the empty list.                                      *)

\* PatternConfig: the defaults, and a detector that is easier to satisfy and
\* returns one pattern
DefaultPatternConfig ==
    [min_pattern_occurrences |-> 5, min_pattern_confidence |-> (7 * Scale) \div 10,
     max_patterns_per_type |-> 10]

PatternConfigs ==
    { DefaultPatternConfig,
      [min_pattern_occurrences |-> 2, min_pattern_confidence |-> Scale \div 2,
       max_patterns_per_type |-> 1] }

NoDetection == [calls |-> 0, data_type |-> "", raised |-> FALSE, read |-> <<>>,
                patterns |-> <<>>]

DetectorConstructed(cfg) ==
    /\ pr_config = cfg
    /\ pr_result = NoDetection

\* the key a trade is grouped under (<<>> when the trade is skipped): its
\* symbol, its trader_id, or f"{action}:{symbol}"
GroupKey(grouping, trade) ==
    CASE grouping = "high_success_symbol" -> trade.symbol
      [] grouping = "reliable_trader" -> trade.trader_id
      [] OTHER -> IF trade.action # None /\ trade.symbol # None
                  THEN Some(<<trade.action[1], ":", trade.symbol[1]>>) ELSE None

\* the members of a set of positions, ascending
Ascending(positions) ==
    CHOOSE f \in [1 .. Cardinality(positions) -> positions] :
        \A i, j \in 1 .. Cardinality(positions) : i < j => f[i] < f[j]

\* confidence without the sample-size factor
ConfidenceUnscaled(cfg, total, strength) == strength

\* min(1.0, total / (self.min_pattern_occurrences * 2)) * success_rate
ConfidenceOf(cfg, total, strength) ==
    Mul(PyMin(Scale, (total * Scale) \div (cfg.min_pattern_occurrences * 2)), strength)

\* total >= min_pattern_occurrences and success_rate >= min_pattern_confidence
Qualifies(cfg, total, success_rate) ==
    /\ ~(total < cfg.min_pattern_occurrences)
    /\ success_rate >= cfg.min_pattern_confidence

\* one grouping pass: the groups in the order their keys first appear, a
\* pattern for each group that qualifies
GroupPatterns(cfg, trades, grouping) ==
    LET keys == [i \in 1 .. Len(trades) |-> GroupKey(grouping, trades[i])]
        firsts == { i \in 1 .. Len(trades) :
                      keys[i] # None /\ \A j \in 1 .. i - 1 : keys[j] # keys[i] }
        order == Ascending(firsts)
        candidate(i) ==
            LET members == { j \in 1 .. Len(trades) : keys[j] = keys[order[i]] }
                total == Cardinality(members)
                successful ==
                    Cardinality({ j \in members : trades[j].outcome = "success" })
                success_rate == IF total > 0 THEN (successful * Scale) \div total ELSE 0
            IN [type |-> grouping,
                subject |-> IF grouping = "action_symbol_success"
                            THEN trades[order[i]].symbol[1] ELSE keys[order[i]][1],
                action |-> IF grouping = "action_symbol_success"
                           THEN trades[order[i]].action ELSE None,
                success_rate |-> success_rate,
                sample_size |-> total,
                confidence |-> ConfidenceOf(cfg, total, success_rate)]
    IN SelectSeq([i \in 1 .. Len(order) |-> candidate(i)],
                 LAMBDA p : Qualifies(cfg, p.sample_size, p.success_rate))

\* patterns.sort(key=confidence, reverse=True): descending and stable
RECURSIVE SortByConfidence(_)
SortByConfidence(patterns) ==
    IF patterns = <<>> THEN <<>>
    ELSE LET sorted == SortByConfidence(Tail(patterns))
             p == Head(patterns)
             above == Cardinality({ i \in 1 .. Len(sorted) :
                                      sorted[i].confidence > p.confidence })
         IN SubSeq(sorted, 1, above) \o <<p>> \o SubSeq(sorted, above + 1, Len(sorted))

\* _detect_trade_patterns: the patterns found, in the order found (each is
\* handed to _store_pattern), and the ones returned
TradePatternsFound(cfg, trades) ==
    GroupPatterns(cfg, trades, "high_success_symbol")
        \o GroupPatterns(cfg, trades, "reliable_trader")
        \o GroupPatterns(cfg, trades, "action_symbol_success")

TradePatternsReturned(cfg, found) ==
    SliceFirst(SortByConfidence(found), cfg.max_patterns_per_type)

\* _store_pattern on each pattern found, in turn; `failing` are the
\* positions at which the store raises
RECURSIVE PatternsKept(_, _, _)
PatternsKept(kept, found, failing) ==
    IF found = <<>> THEN kept
    ELSE LET pattern == Head(found)
             pattern_key == DetectedPatternKey(pattern)
             at == Len(kept.calls) - kept.before + 1
             ok == at \notin failing
             next ==
                 IF AlreadyCached(kept.cache, pattern_key)
                 THEN [kept EXCEPT !.calls = Append(@, "cached")]
                 ELSE [kept EXCEPT
                          !.calls = Append(@, IF ok THEN "stored" ELSE "failed"),
                          !.store = Stored(@, [pattern_type |-> pattern.type,
                                               pattern_key |-> pattern_key,
                                               pattern |-> pattern], ok),
                          !.cache = IF ok THEN (pattern_key :> pattern) @@ @ ELSE @]
         IN PatternsKept(next, Tail(found), failing)

\* every data type accepted
SupportedAlways(data_type) == TRUE

\* the data types detect_patterns knows
Supported(data_type) == data_type \in {"trades", "signals", "feedback"}

\* detect_patterns on the trades it read.  Each pattern found takes a fresh
\* id (the number of the _store_pattern call) and the time of detection.
PatternsDetected(cfg, detector, trades, data_type, failing) ==
    LET bare == TradePatternsFound(cfg, trades)
        found == [i \in 1 .. Len(bare) |->
                     bare[i] @@ [id |-> Len(detector.pr_calls) + i,
                                 detected_at |-> "t1"]]
        kept == PatternsKept([store |-> detector.detected_patterns,
                              cache |-> detector.pr_pattern_cache,
                              calls |-> detector.pr_calls,
                              before |-> Len(detector.pr_calls)],
                             found, failing)
    IN IF ~Supported(data_type)
       THEN [detector EXCEPT
                !.pr_result = [calls |-> @.calls + 1, data_type |-> data_type,
                               raised |-> TRUE, read |-> <<>>, patterns |-> <<>>]]
       ELSE [detected_patterns |-> kept.store,
             pr_pattern_cache |-> kept.cache,
             pr_calls |-> kept.calls,
             pr_result |-> [calls |-> detector.pr_result.calls + 1,
                            data_type |-> data_type, raised |-> FALSE,
                            read |-> trades,
                            patterns |-> TradePatternsReturned(cfg, found)]]

\* the PatternRecognition engine as it stands
Detector ==
    [detected_patterns |-> detected_patterns, pr_pattern_cache |-> pr_pattern_cache,
     pr_calls |-> pr_calls, pr_result |-> pr_result]

DetectPatterns(data_type, fetched, failing) ==
    LET after == PatternsDetected(pr_config, Detector,
                                  IF data_type = "trades" /\ fetched
                                  THEN trade_outcomes ELSE <<>>,
                                  data_type, failing)
    IN /\ pr_result.calls < MaxDetections
       /\ detected_patterns' = after.detected_patterns
       /\ pr_pattern_cache' = after.pr_pattern_cache
       /\ pr_calls' = after.pr_calls
       /\ pr_result' = after.pr_result
       /\ UNCHANGED pr_config

-----------------------------------------------------------------------------
(* LearningManager.run_learning_cycle, run from start to end.  Both the     *)
(* PerformanceTracker and PatternRecognition read the trade outcomes of the *)
(* store; a record has an outcome and a profit_loss and, each optional, a   *)
(* symbol, a trader_id and an action.                                       *)

\* every cycle reporting
ShouldGenerateAlways(last, now, frequency) == TRUE

\* should_generate_report: never reported, or report_frequency hours since
ShouldGenerateReport(last, now, frequency) ==
    last = None \/ now - last[1] >= frequency

\* the trade record the detector sees in an outcome record: t.get("outcome")
AsTrade(o) ==
    [symbol |-> o.symbol, trader_id |-> o.trader_id, action |-> o.action,
     outcome |-> IF o.outcome # None THEN o.outcome[1] ELSE ""]

\* the pattern dict as ProceduralMemory.store_pattern keys it: its id, its
\* type and its subject fields (the numbers, which the trades determine,
\* and detected_at are left out)
PatternPayload(pattern) ==
    DictVal(<< <<"id", pattern.id>>, <<"type", pattern.type>>,
               <<IF pattern.type = "reliable_trader" THEN "trader_id" ELSE "symbol",
                 pattern.subject>> >>
            \o IF pattern.action # None THEN << <<"action", pattern.action[1]>> >>
               ELSE <<>>)

\* for pattern in trade_patterns: store_pattern(pattern["type"], pattern,
\* success=True)
RECURSIVE PatternsLearned(_, _)
PatternsLearned(memory, patterns) ==
    IF patterns = <<>> THEN memory
    ELSE LET stored == PatternStored(memory.rows, memory.cache, Head(patterns).type,
                                     PatternPayload(Head(patterns)), TRUE, TRUE)
         IN PatternsLearned(stored, Tail(patterns))

\* run_learning_cycle: calculate_metrics; a report if one is due (which
\* calculates the metrics again, takes `took` hours and sets
\* last_report_time); the three detect_patterns passes; then every trade
\* pattern returned goes to the procedural tier.  `fetched`: the store
\* returns the outcomes (the readers take an empty list otherwise);
\* `stored`: the store takes snapshots, reports and detected patterns
\* (the writers swallow the failure otherwise); `learned`: the procedural
\* tier takes the patterns, or its first call raises and the cycle returns
\* with the error recorded
RunLearningCycle(fetched, stored, took, learned) ==
    LET outcomes == IF fetched THEN trade_outcomes ELSE <<>>
        trades == [i \in 1 .. Len(outcomes) |-> AsTrade(outcomes[i])]
        failing == IF stored THEN {} ELSE 1 .. 3 * Len(trades)
        due == ShouldGenerateReport(last_report_time, utc_now,
                                    perf_config.report_frequency)
    IN /\ cycle_log.cycles < MaxCycles
       /\ utc_now + took <= MaxHours
       /\ \E calculated \in {MetricsCalculated(perf_config, Tracker, outcomes, stored)} :
          \E reported \in {IF due
                            THEN MetricsCalculated(perf_config, calculated, outcomes,
                                                   stored)
                            ELSE calculated} :
             /\ metrics_history' = reported.metrics_history
             /\ metrics_store' = reported.metrics_store
             /\ perf_calls' = reported.perf_calls
             /\ perf_result' = reported.perf_result
       /\ IF due
          THEN /\ utc_now' = utc_now + took
               /\ last_report_time' = Some(utc_now + took)
               /\ report_store' = Stored(report_store, [generated_at |-> utc_now + took],
                                         stored)
          ELSE UNCHANGED <<utc_now, last_report_time, report_store>>
       /\ \E by_trades \in {PatternsDetected(pr_config, Detector, trades, "trades",
                                              failing)} :
          \E by_signals \in {PatternsDetected(pr_config, by_trades, <<>>, "signals",
                                               failing)} :
          \E by_feedback \in {PatternsDetected(pr_config, by_signals, <<>>, "feedback",
                                                failing)} :
          \E memory \in {IF learned
                          THEN PatternsLearned([rows |-> action_patterns,
                                                cache |-> pattern_cache],
                                               by_trades.pr_result.patterns)
                          ELSE [rows |-> action_patterns, cache |-> pattern_cache]} :
             /\ detected_patterns' = by_feedback.detected_patterns
             /\ pr_pattern_cache' = by_feedback.pr_pattern_cache
             /\ pr_calls' = by_feedback.pr_calls
             /\ pr_result' = by_feedback.pr_result
             /\ action_patterns' = memory.rows
             /\ pattern_cache' = memory.cache
             /\ cycle_log' = [cycles |-> cycle_log.cycles + 1, at |-> utc_now,
                              performance_report |-> due,
                              error |-> ~learned /\ by_trades.pr_result.patterns # <<>>]
       /\ UNCHANGED <<perf_config, trade_outcomes, pr_config>>

\* an hour passes
Tick ==
    /\ utc_now < MaxHours
    /\ utc_now' = utc_now + 1
    /\ UNCHANGED <<last_report_time, report_store, cycle_log>>

-----------------------------------------------------------------------------
(* Specifications *)

memVars == <<semVars, procVars, fbVars, patVars, keyVars, agentVars>>

AgentIdle ==
    /\ MMConstructed
    /\ AgentConstructed
    /\ LearningManagerConstructed
    /\ StoreCallsIdle
    /\ sem_call = NoGet
    /\ fb_call = NoFeedbackCall
    /\ CycleConstructed
    /\ PerformanceConstructed(DefaultPerformanceConfig)
    /\ trade_outcomes = <<>>
    /\ DetectorConstructed(DefaultPatternConfig)

WMIdle == WMConstructed(MaxCapacity)
RLIdle == RLConstructed(DefaultRLConfig)
KeysIdle == KeysConstructed(<< <<"tool", "scan">> >>, << <<"tool", "scan">> >>)
MemIdle ==
    /\ DBConstructed
    /\ SemanticConstructed
    /\ ProceduralConstructed
    /\ FeedbackConstructed(DefaultFeedbackConfig)
    /\ PatternRecognitionConstructed
    /\ KeysIdle
    /\ AgentIdle

InitWM ==
    /\ \E n \in 0 .. MaxCapacity : WMConstructed(n)
    /\ RLIdle
    /\ MemIdle

NextWM ==
    \E turn \in Turns : WMUpdate(turn) /\ UNCHANGED <<rlVars, memVars>>

SpecWM == InitWM /\ [][NextWM]_vars

\* the MemoryManager over its four tiers, each tier call free to raise
InitMM ==
    /\ \E n \in 0 .. MaxCapacity : WMConstructed(n)
    /\ RLIdle
    /\ MemIdle

NextMM ==
    \/ \E current_input \in MemoryInputs, fail \in {"none"} \cup ContextReads :
          GetContext(current_input, fail)
          /\ UNCHANGED <<rlVars, fbVars, patVars, keyVars, turnVars, loopVars, sideVars>>
    \/ \E t \in MemoryTurns, fail \in {"none"} \cup Range(MemoryWrites) :
          UpdateMemories(t.input_data, t.response, t.result, fail)
          /\ UNCHANGED <<rlVars, fbVars, patVars, keyVars, turnVars, loopVars, sideVars>>

SpecMM == InitMM /\ [][NextMM]_vars

\* the MemoryManager built under options whose max_history and
\* max_episodic_memories both vary
EnhancedConfigs ==
    [max_history : 1 .. MaxCapacity, max_episodic_memories : 1 .. MaxCapacity]

InitCapacity ==
    /\ conversation_history = <<>>
    /\ wm_clock = 0
    /\ RLIdle
    /\ DBConstructed
    /\ SemanticConstructed
    /\ ProceduralConstructed
    /\ FeedbackConstructed(DefaultFeedbackConfig)
    /\ PatternRecognitionConstructed
    /\ KeysIdle
    /\ MMConstructedUnder(EnhancedConfigs)
    /\ AgentConstructed
    /\ LearningManagerConstructed
    /\ StoreCallsIdle
    /\ sem_call = NoGet
    /\ fb_call = NoFeedbackCall
    /\ CycleConstructed
    /\ PerformanceConstructed(DefaultPerformanceConfig)
    /\ trade_outcomes = <<>>
    /\ DetectorConstructed(DefaultPatternConfig)

SpecCapacity == InitCapacity /\ [][NextMM]_vars

\* a long run of update_memories: trader1 buys and sells AAPL in turn, every
\* tier taking its write
HistoryTurn(n) ==
    [input_data |-> [isdict |-> TRUE, trader_id |-> Some("trader1"),
                     symbol |-> Some("AAPL"),
                     action |-> Some(IF n % 2 = 0 THEN "buy" ELSE "sell")],
     response |-> [isdict |-> TRUE, action_sequence |-> None, tool |-> Some("scan")],
     result |-> [isdict |-> TRUE, outcome |-> Some("success"), success |-> Some(TRUE)]]

InitHist == InitMM

NextHist ==
    /\ wm_clock < MaxHistoryTurns
    /\ MemoriesUpdated(HistoryTurn(wm_clock).input_data, HistoryTurn(wm_clock).response,
                       HistoryTurn(wm_clock).result, "none")
    /\ UNCHANGED <<rlVars, fbVars, patVars, keyVars, turnVars, loopVars, sideVars>>

SpecHist == InitHist /\ [][NextHist]_vars

\* turns of the agent, one at a time, every collaborator free to raise
InitTurn ==
    /\ WMIdle
    /\ RLIdle
    /\ MemIdle

NextTurn ==
    \/ \E text \in TurnInputs, ok \in BOOLEAN : TurnPerception(text, ok)
    \/ \E fail \in {"none"} \cup ContextReads : TurnContext(fail)
    \/ TurnPatterns
    \/ \E response \in TurnResponses, ok \in BOOLEAN : TurnCognition(response, ok)
    \/ \E result \in TurnResults, ok \in BOOLEAN : TurnAction(result, ok)
    \/ \E fail \in {"none"} \cup Range(MemoryWrites) : TurnMemory(fail)
    \/ TurnLearning

SpecTurn == InitTurn /\ [][NextTurn]_vars

\* the background loop under start and stop calls, every awaited call free
\* to raise
InitLoop ==
    /\ WMIdle
    /\ RLIdle
    /\ MemIdle

LoopStep(t) ==
    /\ t \in 1 .. Len(tasks)
    /\ \E ok \in BOOLEAN, answer \in BOOLEAN,
          mined \in MinedLists(Len(action_patterns), Len(tasks[t].pending)) :
           BackgroundLearningLoop(t, ok, answer, mined)
    /\ UNCHANGED <<wmVars, rlVars, semVars, fbVars, patVars, keyVars, mmVars,
                   turnVars, sideVars>>

NextLoop ==
    \/ StartBackgroundLearning
          /\ UNCHANGED <<wmVars, rlVars, semVars, fbVars, patVars, keyVars, mmVars,
                         turnVars, sideVars>>
    \/ StopBackgroundLearning
          /\ UNCHANGED <<wmVars, rlVars, semVars, fbVars, patVars, keyVars, mmVars,
                         turnVars, sideVars>>
    \/ \E t \in 1 .. MaxTasks : LoopStep(t)

SpecLoop == InitLoop /\ [][NextLoop]_vars

\* the event loop resumes every task that can run, and every awaited call
\* and timer comes back
SpecLoopFair == SpecLoop /\ \A t \in 1 .. MaxTasks : WF_vars(LoopStep(t))

\* two store_pattern calls on one pattern, interleaved at their suspensions
InitConc == InitLoop

NextConc ==
    /\ \/ \E c \in StoreCallers, success \in BOOLEAN :
              success \in SuccessArguments(c) /\ StorePatternRead(c, success)
       \/ \E c \in StoreCallers : StorePatternWritten(c)
       \/ StoreCallsReturned
    /\ UNCHANGED <<wmVars, rlVars, semVars, fbVars, patVars, keyVars,
                   mmVars, turnVars, loopVars, callVars, perfVars, detVars,
                   fbCallVars, cycleVars>>

SpecConc == InitConc /\ [][NextConc]_vars

\* calculate_metrics on the outcome records of the store
OutcomeRecords ==
    { [outcome |-> Some("success"), profit_loss |-> Some(50)],
      [outcome |-> Some("failure"), profit_loss |-> Some(-20)],
      [outcome |-> None, profit_loss |-> None] }

OutcomeOf(outcome, profit_loss) ==
    [outcome |-> Some(outcome), profit_loss |-> Some(profit_loss)]

\* three wins, two losses and a trade of unknown outcome
MixedOutcomes ==
    << OutcomeOf("success", 50), OutcomeOf("success", 30), OutcomeOf("failure", -20),
       OutcomeOf("success", 40), OutcomeOf("failure", -10), OutcomeOf("unknown", 0) >>

OutcomeLists ==
    {MixedOutcomes} \cup UNION { [1 .. n -> OutcomeRecords] : n \in 0 .. MaxOutcomes }

InitPerf ==
    /\ WMIdle
    /\ RLIdle
    /\ DBConstructed
    /\ SemanticConstructed
    /\ ProceduralConstructed
    /\ FeedbackConstructed(DefaultFeedbackConfig)
    /\ PatternRecognitionConstructed
    /\ KeysIdle
    /\ MMConstructed
    /\ AgentConstructed
    /\ LearningManagerConstructed
    /\ StoreCallsIdle
    /\ sem_call = NoGet
    /\ fb_call = NoFeedbackCall
    /\ CycleConstructed
    /\ \E cfg \in PerformanceConfigs : PerformanceConstructed(cfg)
    /\ trade_outcomes \in OutcomeLists
    /\ DetectorConstructed(DefaultPatternConfig)

NextPerf ==
    /\ \E fetched \in BOOLEAN, stored \in BOOLEAN : CalculateMetrics(fetched, stored)
    /\ UNCHANGED <<wmVars, rlVars, semVars, procVars, fbVars, patVars, keyVars,
                   mmVars, turnVars, loopVars, concVars, callVars, detVars,
                   fbCallVars, cycleVars>>

SpecPerf == InitPerf /\ [][NextPerf]_vars

\* detect_patterns on the trade records of the store
TradeOf(symbol, trader_id, action, outcome) ==
    [symbol |-> symbol, trader_id |-> trader_id, action |-> action,
     outcome |-> outcome]

TradeRecords ==
    { TradeOf(Some("AAPL"), Some("trader1"), Some("buy"), "success"),
      TradeOf(Some("AAPL"), Some("trader1"), Some("buy"), "failure"),
      TradeOf(Some("AAPL"), None, Some("sell"), "success"),
      TradeOf(None, Some("trader1"), None, "success") }

\* five trades of one symbol, four of them successful
FourOfFive ==
    << TradeOf(Some("AAPL"), Some("trader1"), Some("buy"), "success"),
       TradeOf(Some("AAPL"), None, Some("sell"), "success"),
       TradeOf(Some("AAPL"), Some("trader1"), Some("buy"), "failure"),
       TradeOf(Some("AAPL"), Some("trader1"), Some("buy"), "success"),
       TradeOf(Some("AAPL"), None, Some("sell"), "success") >>

TradeLists ==
    {FourOfFive} \cup UNION { [1 .. n -> TradeRecords] : n \in 0 .. MaxDetectTrades }

\* the _store_pattern calls of one pass at which the store raises: none, the
\* first, or all
FailingCalls == { {}, {1}, 1 .. 2 * MaxDetectTrades }

DataTypes == {"trades", "signals", "feedback", "positions"}

InitDetect ==
    /\ WMIdle
    /\ RLIdle
    /\ DBConstructed
    /\ SemanticConstructed
    /\ ProceduralConstructed
    /\ FeedbackConstructed(DefaultFeedbackConfig)
    /\ PatternRecognitionConstructed
    /\ KeysIdle
    /\ MMConstructed
    /\ AgentConstructed
    /\ LearningManagerConstructed
    /\ StoreCallsIdle
    /\ sem_call = NoGet
    /\ fb_call = NoFeedbackCall
    /\ CycleConstructed
    /\ PerformanceConstructed(DefaultPerformanceConfig)
    /\ trade_outcomes \in TradeLists
    /\ \E cfg \in PatternConfigs : DetectorConstructed(cfg)

NextDetect ==
    /\ \E data_type \in DataTypes, fetched \in BOOLEAN, failing \in FailingCalls :
           DetectPatterns(data_type, fetched, failing)
    /\ UNCHANGED <<wmVars, rlVars, semVars, procVars, fbVars, keyVars,
                   mmVars, turnVars, loopVars, concVars, callVars, perfVars,
                   fbCallVars, cycleVars>>

SpecDetect == InitDetect /\ [][NextDetect]_vars

\* learning cycles over unchanged trade outcomes while the hours pass:
\* five trades of one symbol, one trade, or none
CycleOutcome(trade, profit_loss) ==
    [symbol |-> trade.symbol, trader_id |-> trade.trader_id, action |-> trade.action,
     outcome |-> Some(trade.outcome), profit_loss |-> Some(profit_loss)]

CycleOutcomeLists ==
    LET five == [i \in 1 .. Len(FourOfFive) |->
                    CycleOutcome(FourOfFive[i],
                                 IF FourOfFive[i].outcome = "success" THEN 50 ELSE -20)]
    IN {<<>>, SubSeq(five, 1, 1), five}

InitCycle ==
    /\ WMIdle
    /\ RLIdle
    /\ DBConstructed
    /\ SemanticConstructed
    /\ ProceduralConstructed
    /\ FeedbackConstructed(DefaultFeedbackConfig)
    /\ PatternRecognitionConstructed
    /\ KeysIdle
    /\ MMConstructed
    /\ AgentConstructed
    /\ LearningManagerConstructed
    /\ StoreCallsIdle
    /\ sem_call = NoGet
    /\ fb_call = NoFeedbackCall
    /\ CycleConstructed
    /\ \E cfg \in PerformanceConfigs : PerformanceConstructed(cfg)
    /\ trade_outcomes \in CycleOutcomeLists
    /\ \E cfg \in PatternConfigs : DetectorConstructed(cfg)

NextCycle ==
    \/ \E fetched \in BOOLEAN, stored \in BOOLEAN, took \in 0 .. 1, learned \in BOOLEAN :
          /\ RunLearningCycle(fetched, stored, took, learned)
          /\ UNCHANGED <<wmVars, rlVars, semVars, fbVars, keyVars, mmVars, turnVars,
                         loopVars, concVars, callVars, fbCallVars>>
    \/ /\ Tick
       /\ UNCHANGED <<wmVars, rlVars, semVars, procVars, fbVars, patVars, keyVars,
                      mmVars, turnVars, loopVars, concVars, callVars, perfVars,
                      detVars, fbCallVars>>

SpecCycle == InitCycle /\ [][NextCycle]_vars

\* one engine: updates and selections
InitRL ==
    /\ \E cfg \in RLConfigs : RLConstructed(cfg)
    /\ WMIdle
    /\ MemIdle

NextRL ==
    \/ \E state \in StateInputs, action \in ActionInputs,
          reward \in RewardInputs, next_state \in StateInputs :
          UpdateQValue(1, state, action, reward, next_state)
          /\ UNCHANGED <<wmVars, memVars>>
    \/ \E state \in StateInputs, possible_actions \in CandidateLists :
          SelectAction(1, state, possible_actions) /\ UNCHANGED <<wmVars, memVars>>

SpecRL == InitRL /\ [][NextRL]_vars

\* one engine, one state: updates of its two actions, and selections there
InitRLSelect == InitRL

NextRLSelect ==
    \/ \E action \in ActionInputs, reward \in RewardInputs :
          UpdateQValue(1, StrVal(<<"s">>), action, reward, StrVal(<<"s">>))
          /\ UNCHANGED <<wmVars, memVars>>
    \/ \E possible_actions \in CandidateLists :
          SelectAction(1, StrVal(<<"s">>), possible_actions)
          /\ UNCHANGED <<wmVars, memVars>>

SpecRLSelect == InitRLSelect /\ [][NextRLSelect]_vars

\* two engines exchanging a model: updates, save_model, load_model
InitRLModel == InitRL

NextRLModel ==
    \/ \E e \in Engines, action \in ActionInputs :
          UpdateQValue(e, StrVal(<<"s">>), action, Scale, StrVal(<<"s">>))
          /\ UNCHANGED <<wmVars, memVars>>
    \/ \E e \in Engines : SaveModel(e) /\ UNCHANGED <<wmVars, memVars>>
    \/ \E e \in Engines : LoadModel(e) /\ UNCHANGED <<wmVars, memVars>>

SpecRLModel == InitRLModel /\ [][NextRLModel]_vars

\* SemanticMemory and the FeedbackProcessor on the trader and market records
FeedbackValues ==
    { StrValue("Good"), StrValue("NO"), NumValue(-2 * Scale), NumValue(Scale \div 2) }

OptionalOf(S) == {None} \cup { Some(x) : x \in S }

\* user feedback on a signal (one without its symbol) and on a trader
SemFeedbackInputs ==
    { [type |-> "trade_signal", value |-> StrValue("NO"),
       symbol |-> Some("AAPL"), trader_id |-> None,
       pattern_type |-> None, pattern_key |-> None],
      [type |-> "trade_signal", value |-> NumValue(2 * Scale),
       symbol |-> None, trader_id |-> None,
       pattern_type |-> None, pattern_key |-> None],
      [type |-> "trader_reliability", value |-> StrValue("NO"),
       symbol |-> None, trader_id |-> Some("trader1"),
       pattern_type |-> None, pattern_key |-> None],
      [type |-> "trader_reliability", value |-> NumValue(2 * Scale),
       symbol |-> None, trader_id |-> Some("trader1"),
       pattern_type |-> None, pattern_key |-> None] }

\* trade outcomes: a capped profit, a small loss without a trader, an
\* unknown outcome
TradeInputs ==
    { [symbol |-> "AAPL", outcome |-> "success", profit_loss |-> 250,
       trader_id |-> Some("trader1")],
      [symbol |-> "AAPL", outcome |-> "failure", profit_loss |-> -5,
       trader_id |-> None],
      [symbol |-> "AAPL", outcome |-> "unknown", profit_loss |-> 50,
       trader_id |-> Some("trader1")] }

InitSem ==
    /\ WMIdle
    /\ RLIdle
    /\ DBConstructed
    /\ SemanticConstructed
    /\ ProceduralConstructed
    /\ \E cfg \in FeedbackConfigs : FeedbackConstructed(cfg)
    /\ PatternRecognitionConstructed
    /\ KeysIdle
    /\ AgentIdle

NextSem ==
    \/ \E trader_id \in TraderIds :
          GetTraderProfile(trader_id)
          /\ UNCHANGED <<wmVars, rlVars, procVars, fbVars, patVars, keyVars, agentVars>>
    \/ \E symbol \in Symbols :
          GetMarketKnowledge(symbol)
          /\ UNCHANGED <<wmVars, rlVars, procVars, fbVars, patVars, keyVars, agentVars>>
    \/ \E trader_id \in TraderIds, outcome \in Outcomes :
          UpdateTraderReliability(trader_id, outcome)
          /\ UNCHANGED <<wmVars, rlVars, procVars, fbVars, patVars, keyVars, agentVars>>
    \/ ClearCaches
          /\ UNCHANGED <<wmVars, rlVars, procVars, fbVars, patVars, keyVars, agentVars>>
    \/ \E feedback_data \in SemFeedbackInputs :
          ProcessUserFeedback(feedback_data)
          /\ UNCHANGED <<wmVars, rlVars, patVars, keyVars, agentVars>>
    \/ \E trade_data \in TradeInputs :
          ProcessTradeOutcome(trade_data)
          /\ UNCHANGED <<wmVars, rlVars, patVars, keyVars, agentVars>>

SpecSem == InitSem /\ [][NextSem]_vars

\* process_trade_outcome on its own: every outcome, in either letter case
\* for a success, with profits on both sides of each bound; the call
\* returns the reward it put in the outcome record
RewardOutcomes == Outcomes \cup {"SUCCESS"}

Profits == {-250, -100, -10, -5, 0, 5, 10, 50, 100, 250}

TradeOutcomeInputs ==
    [symbol : {"AAPL"}, outcome : RewardOutcomes, profit_loss : Profits,
     trader_id : OptionalOf({"trader1"})]

InitReward == InitSem

NextReward ==
    \E trade_data \in TradeOutcomeInputs, ok \in BOOLEAN :
        /\ fb_call.calls < MaxRewardCalls
        /\ TradeOutcomeProcessed(trade_data, ok)
        /\ fb_call' = [calls |-> fb_call.calls + 1, op |-> "process_trade_outcome",
                       data |-> trade_data,
                       returned |-> Last(feedback_history').value]
        /\ UNCHANGED <<wmVars, rlVars, patVars, keyVars, mmVars, turnVars, loopVars,
                       concVars, callVars, perfVars, detVars,
                   cycleVars>>

SpecReward == InitReward /\ [][NextReward]_vars

\* outcome_data.get("next_state", ""): the empty string when the key is absent
NextStateOf(data) == IF data.next_state # None THEN data.next_state[1] ELSE StrVal(<<>>)

\* LearningManager.process_feedback: the FeedbackProcessor first, then,
\* under `"state" in feedback_data and "action" in feedback_data`,
\* update_q_value with feedback_data.get("value", 0.0), the value as it was
\* given; on a string value reward * self.reward_scale raises TypeError
\* before the engine is touched
ManagerFeedbackProcessed(feedback_data, ok) ==
    LET applicable == feedback_data.state # None /\ feedback_data.action # None
    IN /\ UserFeedbackProcessed(feedback_data, ok)
       /\ IF applicable /\ ~feedback_data.value.isstr
          THEN UpdateQValue(1, feedback_data.state[1], feedback_data.action[1],
                            feedback_data.value.num, NextStateOf(feedback_data))
          ELSE UNCHANGED rlVars
       /\ fb_call' = [calls |-> fb_call.calls + 1, op |-> "process_feedback",
                      data |-> feedback_data,
                      returned |-> Last(feedback_history').value,
                      raised |-> applicable /\ feedback_data.value.isstr]

\* LearningManager.process_outcome: update_q_value takes result["reward"]
ManagerOutcomeProcessed(outcome_data, ok) ==
    /\ TradeOutcomeProcessed(outcome_data, ok)
    /\ IF outcome_data.state # None /\ outcome_data.action # None
       THEN UpdateQValue(1, outcome_data.state[1], outcome_data.action[1],
                         calculate_reward(outcome_data.outcome,
                                          outcome_data.profit_loss),
                         NextStateOf(outcome_data))
       ELSE UNCHANGED rlVars
    /\ fb_call' = [calls |-> fb_call.calls + 1, op |-> "process_outcome",
                   data |-> outcome_data,
                   returned |-> Last(feedback_history').value,
                   raised |-> FALSE]

\* the state, action and next_state keys a feedback or outcome dict may
\* carry: none, one of the two, both, both with the next state
QFields ==
    LET state == Some(StrVal(<<"s">>))
        action == Some(StrVal(<<"a">>))
    IN { [state |-> None, action |-> None, next_state |-> None],
         [state |-> state, action |-> None, next_state |-> None],
         [state |-> None, action |-> action, next_state |-> state],
         [state |-> state, action |-> action, next_state |-> None],
         [state |-> state, action |-> action, next_state |-> state] }

\* feedback on a signal: a value in range, one above 1, one in words
ManagerFeedbackInputs ==
    { [type |-> "trade_signal", value |-> value, symbol |-> Some("AAPL"),
       trader_id |-> None, pattern_type |-> None, pattern_key |-> None] @@ q :
          value \in {NumValue(8 * (Scale \div 10)), NumValue(2 * Scale),
                     StrValue("Good")},
          q \in QFields }

ManagerOutcomeInputs == { trade_data @@ q : trade_data \in TradeInputs, q \in QFields }

InitManager == InitTurn

NextManager ==
    /\ fb_call.calls < MaxManagerCalls
    /\ \/ \E feedback_data \in ManagerFeedbackInputs, ok \in BOOLEAN :
              ManagerFeedbackProcessed(feedback_data, ok)
       \/ \E outcome_data \in ManagerOutcomeInputs, ok \in BOOLEAN :
              ManagerOutcomeProcessed(outcome_data, ok)
    /\ UNCHANGED <<wmVars, patVars, keyVars, mmVars, turnVars, loopVars,
                   concVars, callVars, perfVars, detVars,
                   cycleVars>>

SpecManager == InitManager /\ [][NextManager]_vars

\* get-or-create under the other operations on the trader and market
\* records: reliability updates, cache clearing, trade outcomes fed back
InitGet == InitSem

GetFrame == UNCHANGED <<wmVars, rlVars, procVars, patVars, keyVars,
                        mmVars, turnVars, loopVars, concVars, perfVars, detVars,
                        fbCallVars, cycleVars>>

NextGet ==
    \/ \E trader_id \in TraderIds :
          /\ GetTraderProfile(trader_id)
          /\ sem_call' = [op |-> "get_trader_profile", key |-> trader_id,
                          returned |-> Some(TraderFetched(trader_profiles, trader_cache,
                                                          trader_id).profile)]
          /\ GetFrame /\ UNCHANGED fbVars
    \/ \E symbol \in Symbols :
          /\ GetMarketKnowledge(symbol)
          /\ sem_call' = [op |-> "get_market_knowledge", key |-> symbol,
                          returned |-> Some(MarketFetched(market_knowledge, market_cache,
                                                          symbol).knowledge)]
          /\ GetFrame /\ UNCHANGED fbVars
    \/ \E trader_id \in TraderIds, outcome \in Outcomes :
          /\ UpdateTraderReliability(trader_id, outcome)
          /\ sem_call' = [op |-> "update_trader_reliability", key |-> trader_id,
                          outcome |-> outcome,
                          returned |-> Some(ReliabilityWritten(
                                                trader_profiles, trader_cache,
                                                trader_id, outcome, TRUE).cache[trader_id])]
          /\ GetFrame /\ UNCHANGED fbVars
    \/ ClearCaches /\ sem_call' = NoGet /\ GetFrame /\ UNCHANGED fbVars
    \/ \E trade_data \in TradeInputs :
          /\ ProcessTradeOutcome(trade_data)
          /\ sem_call' = NoGet
          /\ GetFrame

SpecGet == InitGet /\ [][NextGet]_vars

\* a long run of the FeedbackProcessor: every trade's outcome is processed,
\* then the user rates the trader, the store taking every record
RatedTrade ==
    [symbol |-> "AAPL", outcome |-> "success", profit_loss |-> 250,
     trader_id |-> Some("trader1")]

TraderRating ==
    [type |-> "trader_reliability", value |-> StrValue("NO"),
     symbol |-> None, trader_id |-> Some("trader1"),
     pattern_type |-> None, pattern_key |-> None]

InitFbHist == InitSem

NextFbHist ==
    /\ Len(feedback_history) < MaxFeedbackCalls
    /\ \/ Len(feedback_history) % 2 = 0 /\ TradeOutcomeProcessed(RatedTrade, TRUE)
       \/ Len(feedback_history) % 2 = 1 /\ UserFeedbackProcessed(TraderRating, TRUE)
    /\ UNCHANGED <<wmVars, rlVars, patVars, keyVars, agentVars>>

SpecFbHist == InitFbHist /\ [][NextFbHist]_vars

\* ProceduralMemory and the FeedbackProcessor on the action patterns
PatternKeyInputs == { generate_pattern_key(p) : p \in PatternPayloads }

ProcFeedbackInputs ==
    [type : {"strategy", "general"}, value : FeedbackValues,
     symbol : {None}, trader_id : {None},
     pattern_type : OptionalOf(PatternTypes),
     pattern_key : OptionalOf(PatternKeyInputs)]

InitProc == InitSem

NextProc ==
    \/ \E pattern_type \in PatternTypes, pattern_data \in PatternPayloads,
          success \in BOOLEAN :
          StorePattern(pattern_type, pattern_data, success)
          /\ UNCHANGED <<wmVars, rlVars, semVars, fbVars, patVars, keyVars, agentVars>>
    \/ \E pattern_type \in PatternTypes, pattern_key \in PatternKeyInputs :
          GetPattern(pattern_type, pattern_key)
          /\ UNCHANGED <<wmVars, rlVars, semVars, fbVars, patVars, keyVars, agentVars>>
    \/ ClearCache
          /\ UNCHANGED <<wmVars, rlVars, semVars, fbVars, patVars, keyVars, agentVars>>
    \/ \E feedback_data \in ProcFeedbackInputs :
          ProcessUserFeedback(feedback_data)
          /\ UNCHANGED <<wmVars, rlVars, patVars, keyVars, agentVars>>

SpecProc == InitProc /\ [][NextProc]_vars

\* the FeedbackProcessor with every subject in each dict: feedback of the
\* three dispatched types and of a type that is none of them, each naming a
\* symbol, a trader and a pattern, and trade outcomes with and without a
\* trader; patterns are stored in between
UserFeedbackInputs ==
    [type : {"general", "trade_signal", "trader_reliability", "strategy"},
     value : {StrValue("NO"), NumValue(Scale \div 2)},
     symbol : {Some("AAPL")}, trader_id : {Some("trader1")},
     pattern_type : { Some(t) : t \in PatternTypes },
     pattern_key : { Some(k) : k \in PatternKeyInputs }]

InitFeedback == InitSem

FeedbackFrame == UNCHANGED <<wmVars, rlVars, patVars, keyVars, mmVars, turnVars, loopVars,
                             concVars, callVars, perfVars, detVars,
                   cycleVars>>

NextFeedback ==
    \/ \E feedback_data \in UserFeedbackInputs, ok \in BOOLEAN :
          /\ fb_call.calls < MaxFeedbackSteps
          /\ UserFeedbackProcessed(feedback_data, ok)
          /\ fb_call' = [calls |-> fb_call.calls + 1, op |-> "process_user_feedback",
                         data |-> feedback_data,
                         returned |-> Last(feedback_history').value, stored |-> ok]
          /\ FeedbackFrame
    \/ \E trade_data \in TradeInputs, ok \in BOOLEAN :
          /\ fb_call.calls < MaxFeedbackSteps
          /\ TradeOutcomeProcessed(trade_data, ok)
          /\ fb_call' = [calls |-> fb_call.calls + 1, op |-> "process_trade_outcome",
                         data |-> trade_data,
                         returned |-> Last(feedback_history').value, stored |-> ok]
          /\ FeedbackFrame
    \/ \E pattern_type \in PatternTypes, pattern_data \in PatternPayloads,
          success \in BOOLEAN :
          /\ StorePattern(pattern_type, pattern_data, success)
          /\ FeedbackFrame
          /\ UNCHANGED <<semVars, fbVars, fbCallVars>>

SpecFeedback == InitFeedback /\ [][NextFeedback]_vars

\* the FeedbackProcessor over a store that may raise on the record, on the
\* reads and writes of the model updates, or on both; each call returns a
\* status and the id _store_feedback or _store_trade_outcome returned, the
\* record's id being its place in the history
InitUnreachable == InitSem

FeedbackReturned(op, data, ok, reachable) ==
    [calls |-> fb_call.calls + 1, op |-> op, data |-> data,
     stored |-> ok, reachable |-> reachable, status |-> "processed",
     id |-> StoredId(Len(feedback_history) + 1, ok)]

NextUnreachable ==
    \/ \E feedback_data \in UserFeedbackInputs, ok \in BOOLEAN, reachable \in BOOLEAN :
          /\ fb_call.calls < MaxUnreachableCalls
          /\ UserFeedbackHandled(feedback_data, ok, reachable)
          /\ fb_call' = FeedbackReturned("process_user_feedback", feedback_data, ok,
                                         reachable)
          /\ FeedbackFrame
    \/ \E trade_data \in TradeInputs, ok \in BOOLEAN, reachable \in BOOLEAN :
          /\ fb_call.calls < MaxUnreachableCalls
          /\ TradeOutcomeHandled(trade_data, ok, reachable)
          /\ fb_call' = FeedbackReturned("process_trade_outcome", trade_data, ok,
                                         reachable)
          /\ FeedbackFrame

SpecUnreachable == InitUnreachable /\ [][NextUnreachable]_vars

\* PatternRecognition storing detected patterns, no clear_cache
InitPat ==
    /\ WMIdle
    /\ RLIdle
    /\ MemIdle

NextPat ==
    \E pattern \in DetectedPatterns :
        PRStorePattern(pattern)
        /\ UNCHANGED <<wmVars, rlVars, semVars, procVars, fbVars, keyVars, agentVars>>

SpecPat == InitPat /\ [][NextPat]_vars

\* the canonical keys of every two payloads
InitKey ==
    /\ WMIdle
    /\ RLIdle
    /\ DBConstructed
    /\ SemanticConstructed
    /\ ProceduralConstructed
    /\ FeedbackConstructed(DefaultFeedbackConfig)
    /\ PatternRecognitionConstructed
    /\ \E p1 \in KeyPayloadItems, p2 \in KeyPayloadItems : KeysConstructed(p1, p2)
    /\ AgentIdle

NextKey ==
    \/ KeyPatterns /\ UNCHANGED <<wmVars, rlVars, semVars, procVars, fbVars, patVars, agentVars>>
    \/ KeyStates /\ UNCHANGED <<wmVars, rlVars, semVars, procVars, fbVars, patVars, agentVars>>
    \/ KeyActions /\ UNCHANGED <<wmVars, rlVars, semVars, procVars, fbVars, patVars, agentVars>>

SpecKey == InitKey /\ [][NextKey]_vars

-----------------------------------------------------------------------------
(* ReinforcementLearning: properties *)

\* some update_q_value call on engine e is this step
UpdateOn(e) ==
    \E state \in StateInputs, action \in ActionInputs,
       reward \in RewardInputs, next_state \in StateInputs :
       UpdateQValue(e, state, action, reward, next_state)

\* C4 as claimed: across update_q_value and load_model calls, the rate after
\* an update is never above the rate after the previous update of that engine.
C4_RateNeverIncreasesAcrossLoads ==
    [][\A e \in Engines :
          (UpdateOn(e) /\ rate_after_update[e] # -1)
              => engine'[e].exploration_rate <= rate_after_update[e]]_vars

\* C4 amended: every update_q_value leaves exploration_rate at or above
\* min_exploration_rate and never above the rate the call found (when that
\* rate was at least the minimum), so the rate is non-increasing across
\* updates with no load_model between them; 0.2 decays to 0.199 under the
\* default configuration.  load_model restores the saved rate, which may be
\* higher than the current one.
C4_RateDecaysToFloor ==
    [][\A e \in Engines :
          UpdateOn(e) =>
              /\ engine'[e].exploration_rate >= rl_config.min_exploration_rate
              /\ (engine[e].exploration_rate >= rl_config.min_exploration_rate
                    => engine'[e].exploration_rate <= engine[e].exploration_rate)
              /\ (/\ rl_config = DefaultRLConfig
                  /\ engine[e].exploration_rate = 2 * (Scale \div 10))
                    => engine'[e].exploration_rate = 199 * (Scale \div 1000)]_vars

\* C4 witness: an engine whose rate an update clamped to the minimum, after
\* a model was saved and loaded by another engine
C4_Witness ==
    \E e \in Engines, f \in Engines :
        /\ rate_after_update[e] = rl_config.min_exploration_rate
        /\ engine[e].exploration_rate = rl_config.min_exploration_rate
        /\ f # e
        /\ engine[f].q_values = engine[e].q_values

\* the actions recorded in the table from exactly this state
ActionsSeenFrom(q, state) ==
    { a \in ActionInputs :
        get_state_action_key(get_state_key(state), get_action_key(a)) \in DOMAIN q }

\* the maximum Q over the actions seen from next_state, 0 if none
ClaimedMaxNextQ(q, next_state) ==
    IF ActionsSeenFrom(q, next_state) = {} THEN 0
    ELSE SetMax({ q[get_state_action_key(get_state_key(next_state), get_action_key(a))] :
                    a \in ActionsSeenFrom(q, next_state) })

QUpdateAsClaimed(state, action, reward, next_state) ==
    LET q == heap[engine[1].q_values]
        t == heap[engine[1].state_transitions]
        sa_key == get_state_action_key(get_state_key(state), get_action_key(action))
        t_key == get_state_key(state) \o <<"|">> \o get_state_key(next_state)
    IN /\ heap'[engine[1].q_values][sa_key] =
              NewQ(rl_config, DictGet(q, sa_key, 0), reward,
                   ClaimedMaxNextQ(q, next_state))
       /\ heap'[engine[1].state_transitions][t_key] = DictGet(t, t_key, 0) + 1
       /\ (/\ rl_config = DefaultRLConfig
           /\ q = EmptyDict
           /\ reward = Scale)
             => heap'[engine[1].q_values][sa_key] = Scale \div 10

\* C5 as claimed: update_q_value sets Q(state, action) to
\* q + learning_rate * (reward * reward_scale + discount_factor * maxNextQ - q)
\* with maxNextQ the maximum over the actions seen from next_state (0 if none),
\* adds 1 to the transition count, and gives 0.1 from an empty table with the
\* default rates and reward 1.
C5_QUpdateRule ==
    [][\A state \in StateInputs, action \in ActionInputs,
          reward \in RewardInputs, next_state \in StateInputs :
          UpdateQValue(1, state, action, reward, next_state)
              => QUpdateAsClaimed(state, action, reward, next_state)]_vars

\* C5 restricted to next states whose text holds no separator: there the
\* rule is the one claimed
C5_QUpdateRuleSeparatorFree ==
    [][\A state \in StateInputs, action \in ActionInputs,
          reward \in RewardInputs, next_state \in StateInputs :
          (/\ UpdateQValue(1, state, action, reward, next_state)
           /\ \A s \in StateInputs :
                 s # next_state =>
                     ~StartsWith(get_state_key(s), get_state_key(next_state) \o <<"|">>))
              => QUpdateAsClaimed(state, action, reward, next_state)]_vars

\* the Q-value select_action reads for candidate i
CandidateQ(state, possible_actions, i) ==
    DictGet(heap[engine[1].q_values],
            get_state_action_key(get_state_key(state),
                                 get_action_key(possible_actions[i])),
            0)

\* C6: an exploiting select_action on a non-empty list returns the first
\* candidate of the list whose Q-value (0 when unknown) is maximal among the
\* candidates, and records that Q-value.
C6_ExploitPicksFirstMax ==
    [][\A state \in StateInputs, possible_actions \in CandidateLists :
          SelectExploitation(1, state, possible_actions) =>
              \E i \in 1 .. Len(possible_actions) :
                  /\ Last(engine'[1].action_history).action = possible_actions[i]
                  /\ Last(engine'[1].action_history).type = "exploitation"
                  /\ Last(engine'[1].action_history).q_value
                         = <<CandidateQ(state, possible_actions, i)>>
                  /\ \A j \in 1 .. Len(possible_actions) :
                         CandidateQ(state, possible_actions, j)
                             <= CandidateQ(state, possible_actions, i)
                  /\ \A j \in 1 .. (i - 1) :
                         CandidateQ(state, possible_actions, j)
                             < CandidateQ(state, possible_actions, i)]_vars

\* C6 witness: an exploitation chose the action with the larger known Q-value
\* in a state where the other action has a smaller known Q-value
C6_Witness ==
    \E n \in 1 .. Len(engine[1].action_history), other \in ActionInputs :
        LET entry == engine[1].action_history[n]
            q == heap[engine[1].q_values]
            key(a) == get_state_action_key(get_state_key(entry.state), get_action_key(a))
        IN /\ entry.type = "exploitation"
           /\ key(entry.action) \in DOMAIN q
           /\ key(other) \in DOMAIN q
           /\ entry.q_value = <<q[key(entry.action)]>>
           /\ q[key(other)] < q[key(entry.action)]

\* C7: a freshly constructed engine that loads what an engine saves holds the
\* same Q-table, the same transition table and the same exploration rate.
C7_SaveLoadRoundTrip ==
    \A e \in Engines, f \in Engines :
        LET loaded == LoadedEngine(EngineConstructed(rl_config, f),
                                   SavedModelOf(engine[e]))
        IN /\ heap[loaded.q_values] = heap[engine[e].q_values]
           /\ heap[loaded.state_transitions] = heap[engine[e].state_transitions]
           /\ loaded.exploration_rate = engine[e].exploration_rate

\* C7 witness: an engine loaded the model another engine saved after updates
\* that filled its tables and decayed its rate
C7_Witness ==
    \E e \in Engines, f \in Engines :
        /\ f # e
        /\ saved_model = <<SavedModelOf(engine[e])>>
        /\ engine[e].q_values = QDict(e)
        /\ engine[f].q_values = QDict(e)
        /\ engine[f].state_transitions = TDict(e)
        /\ heap[QDict(e)] # EmptyDict
        /\ engine[e].exploration_rate # rl_config.exploration_rate
        /\ engine[f].exploration_rate = engine[e].exploration_rate

-----------------------------------------------------------------------------
(* WorkingMemory: properties *)

\* the history is the last min(calls, max_history) interactions, in order
HoldsMostRecent ==
    /\ Len(conversation_history) <= max_history
    /\ Len(conversation_history) = PyMin(wm_clock, max_history)
    /\ \A i \in 1 .. Len(conversation_history) :
          conversation_history[i].timestamp
              = wm_clock - Len(conversation_history) + i

\* C1 as claimed: for every capacity max_history >= 0, after each update the
\* history holds at most max_history interactions, exactly the most recent
\* ones in arrival order.
C1_HistoryBoundedByCapacity == HoldsMostRecent

\* C1 for capacities of at least one, where the trim keeps the last
\* max_history entries
C1_HistoryBoundedPositiveCapacity == (max_history >= 1) => HoldsMostRecent

-----------------------------------------------------------------------------
(* SemanticMemory and FeedbackProcessor: properties *)


\* every reliability held for a trader or a market, in the store or in a
\* cache: the reliability column of a trader, and the reliability of the
\* JSON data of a trader or a market
StoredReliabilities ==
    LET traders == Range(trader_profiles) \cup Range(trader_cache)
        markets == Range(market_knowledge) \cup Range(market_cache)
    IN { r.reliability : r \in traders }
       \cup { r.data.reliability[1] :
                r \in { x \in traders \cup markets : x.data.reliability # None } }

\* C2: after every update_trader_reliability, process_user_feedback and
\* process_trade_outcome, every stored reliability of a trader or market
\* record lies in [0, 1].
C2_ReliabilityInUnitInterval ==
    \A r \in StoredReliabilities : 0 <= r /\ r <= Scale

\* a decayed update was cut off at 0, and a failed trade put a trader's
\* reliability column at 0
C2_Witness ==
    /\ feedback_history # <<>>
    /\ \E m \in Range(market_knowledge) : m.data.reliability = Some(0)
    /\ \E t \in Range(trader_profiles) : t.failed_trades > 0 /\ t.reliability = 0

-----------------------------------------------------------------------------
(* ProceduralMemory: properties *)

\* C3: every persisted action pattern that counts an observation has
\* effectiveness = success_count / (success_count + failure_count), after
\* any store_pattern calls and strategy feedback.
C3_EffectivenessIsSuccessRatio ==
    \A i \in 1 .. Len(action_patterns) :
        LET r == action_patterns[i]
        IN r.success_count + r.failure_count > 0 =>
               r.effectiveness
                   = (r.success_count * Scale) \div (r.success_count + r.failure_count)

SeededAsObserved(r, success) ==
    /\ r.success_count = (IF success THEN 1 ELSE 0)
    /\ r.failure_count = (IF success THEN 0 ELSE 1)
    /\ r.effectiveness = (IF success THEN Scale ELSE 0)

\* C10: a store_pattern for a type and payload not in the store adds exactly
\* one record, with counts 1/0 and effectiveness 1.0 on success and 0/1 and
\* 0.0 on failure; a store_pattern for one in the store adds no record.
C10_FirstStoreSeedsRecord ==
    [][\A pattern_type \in PatternTypes, pattern_data \in PatternPayloads,
          success \in BOOLEAN :
          StorePattern(pattern_type, pattern_data, success) =>
              LET pattern_key == generate_pattern_key(pattern_data)
                  i == FirstPattern(action_patterns, pattern_type, pattern_key)
                  j == FirstPattern(action_patterns', pattern_type, pattern_key)
              IN IF i = 0
                 THEN /\ Len(action_patterns') = Len(action_patterns) + 1
                      /\ j # 0
                      /\ SeededAsObserved(action_patterns'[j], success)
                 ELSE Len(action_patterns') = Len(action_patterns)]_vars

\* the part of C10 about the number of records: creation adds one record,
\* every later store_pattern for the same type and payload adds none
C10_OneRecordPerPattern ==
    \A i, j \in 1 .. Len(action_patterns) :
        /\ action_patterns[i].pattern_type = action_patterns[j].pattern_type
        /\ action_patterns[i].pattern_key = action_patterns[j].pattern_key
        => i = j

-----------------------------------------------------------------------------
(* PatternRecognition: properties *)

\* C9: no detected pattern is in the store twice: a _store_pattern call for
\* a pattern whose type and content are already persisted writes nothing.
C9_PersistedOncePerContent ==
    \A i, j \in 1 .. Len(detected_patterns) :
        detected_patterns[i].pattern = detected_patterns[j].pattern => i = j

\* a pattern was persisted and a later call found its key in the cache
C9_Witness ==
    /\ detected_patterns # <<>>
    /\ \E i \in 1 .. Len(pr_calls) : pr_calls[i] = "cached"

-----------------------------------------------------------------------------
(* Canonical keys: properties *)

SameFields(p, q) ==
    { p.items[i] : i \in 1 .. Len(p.items) } = { q.items[i] : i \in 1 .. Len(q.items) }

\* C8: two dict payloads with the same fields and values, in whatever key
\* order, get the same pattern key, state key, action key and Q-table key.
C8_KeysOrderIndependent ==
    SameFields(key_payloads[1], key_payloads[2]) =>
        \A f \in DOMAIN key_results :
            key_results[f] # None => key_results[f][1][1] = key_results[f][1][2]

\* two payloads that differ in key order only, all their keys computed
C8_Witness ==
    /\ key_payloads[1] # key_payloads[2]
    /\ SameFields(key_payloads[1], key_payloads[2])
    /\ \A f \in DOMAIN key_results : key_results[f] # None


-----------------------------------------------------------------------------
(* MemoryManager *)

\* C11: get_context always returns a composite context: when the read of a
\* single tier fails the call does not fail, that tier's part is empty or
\* default and the parts of the other tiers are returned
C11_GetContextBestEffort ==
    mm_result.op = "get_context" =>
        /\ ~mm_result.raised
        /\ mm_result.context # None
        /\ mm_result.failed = "episodic" =>
               mm_result.context[1].similar_experiences = <<>>
        /\ mm_result.failed = "trader" => mm_result.context[1].trader_info = None
        /\ mm_result.failed = "market" => mm_result.context[1].market_info = None
        /\ mm_result.failed = "procedural" =>
               mm_result.context[1].action_patterns = <<>>
        /\ mm_result.context[1].working_memory = conversation_history

\* the interaction of the last update_memories call is the newest entry of
\* the working tier
WorkingTierRecorded ==
    /\ conversation_history # <<>>
    /\ Last(conversation_history).timestamp = wm_clock

\* C12: update_memories always records the interaction in the working tier,
\* and the failure of one tier's write does not keep the writes to the
\* remaining tiers from being applied
C12_TierWritesIndependent ==
    mm_result.op = "update_memories" =>
        /\ WorkingTierRecorded
        /\ mm_result.due \ {mm_result.failed} \subseteq mm_result.applied

-----------------------------------------------------------------------------
(* LearningTaatAgent *)

\* the calls of a turn in the order of the code
TurnOrder ==
    <<"perception", "get_context", "relevant_patterns", "cognition", "action",
      "update_memories", "process_outcome">>

\* C13: within one turn the calls are strictly ordered, each starting after
\* the one before it completed: get_context before the decision, the
\* decision before the action, the action before update_memories,
\* update_memories before process_outcome; process_outcome is invoked only
\* when the result carries an outcome
C13_TurnStepsOrdered ==
    /\ Len(turn_log) <= Len(TurnOrder)
    /\ \A i \in 1 .. Len(turn_log) : turn_log[i] = TurnOrder[i]
    /\ Len(turn_log) \in 4 .. 5 =>
           \* the decision and the action run on the context get_context returned
           /\ mm_result.op = "get_context"
           /\ mm_result.context # None
    /\ Len(turn_log) = 6 =>
           \* update_memories was given the result of the action
           /\ mm_result.op = "update_memories"
           /\ Last(conversation_history).turn.result = agent_turn.result[1]
    /\ Len(turn_log) = 7 =>
           \* learning was fed after every tier was written, and had an outcome
           /\ mm_result.op = "update_memories"
           /\ ~mm_result.raised
           /\ agent_turn.result[1].outcome # None
           /\ feedback_history # <<>>

\* a turn that ran all its calls, learning included
C13_Witness ==
    /\ agent_turn.pc = "done"
    /\ turn_log = TurnOrder
    /\ Last(feedback_history).type = "trade_outcome"
    /\ rl_updates > 0

-----------------------------------------------------------------------------
(* LearningManager *)

\* the tasks that can still run cycle code: not finished, not cancelled
RunningCycles ==
    { t \in 1 .. Len(tasks) : tasks[t].pc # "done" /\ ~tasks[t].must_cancel }

\* the task t is resumed and goes on with its loop
Proceeds(t) ==
    /\ tasks'[t] # tasks[t]
    /\ tasks'[t].must_cancel = tasks[t].must_cancel
    /\ tasks'[t].pc # "done"

Called(op) == loop_call' # loop_call /\ loop_call'.op = op

\* C14: start and stop manage a single background task: at most one loop
\* is running cycles, and it is the one the manager holds; starting when
\* started creates no second loop; stopping when not started (or a second
\* time) changes no state
C14_SingleBackgroundTask ==
    /\ [](/\ Cardinality(RunningCycles) <= 1
          /\ background_task # None => RunningCycles \subseteq {background_task[1]}
          /\ background_task = None => RunningCycles = {})
    /\ [][/\ \A t \in 1 .. Len(tasks) : Proceeds(t) => background_task = Some(t)
          /\ Called("start") /\ background_task # None =>
                 UNCHANGED <<background_task, tasks, cycle_return, procVars>>
          /\ Called("stop") /\ background_task = None =>
                 UNCHANGED <<background_task, tasks, cycle_return, procVars>>]_vars

\* a second loop runs its cycle while the first, stopped in the middle of
\* a cycle, has not been resumed yet
C14_Witness ==
    /\ Len(tasks) = 2
    /\ tasks[1].must_cancel /\ tasks[1].pc = "trades"
    /\ tasks[2].pc = "metrics"
    /\ background_task = Some(2)

\* C15: after stop on a running loop the loop sees the cancellation when
\* it is next resumed, at the latest at its sleep, goes on to no further
\* cycle or call, and eventually terminates
C15_CancellationObserved ==
    /\ [][\A t \in 1 .. Len(tasks) :
              tasks[t].must_cancel => tasks'[t].pc \in {tasks[t].pc, "done"}]_vars
    /\ \A t \in 1 .. MaxTasks :
           (t \in 1 .. Len(tasks) /\ tasks[t].must_cancel)
               ~> (t \in 1 .. Len(tasks) /\ tasks[t].pc = "done")

\* a loop that ran a cycle, was stopped and has terminated
C15_Witness ==
    /\ tasks # <<>>
    /\ tasks[1].pc = "done"
    /\ cycle_return # None
    /\ loop_call.op = "stop"

\* C16: unless cancelled the loop never terminates: after a cycle it sleeps
\* and runs another, an exception outside the cycle call leads to the
\* back-off and then to a retry, so another cycle always eventually runs
C16_LoopNeverDies ==
    /\ [][\A t \in 1 .. Len(tasks) :
              /\ tasks[t].pc # "done" /\ tasks'[t].pc = "done" => tasks[t].must_cancel
              /\ tasks'[t].pc = "sleep" /\ tasks[t].pc # "sleep" =>
                     cycle_return' # None
              /\ tasks[t].pc = "sleep" =>
                     tasks'[t].pc \in {"sleep", "metrics", "backoff", "done"}
              /\ tasks[t].pc = "backoff" =>
                     tasks'[t].pc \in {"backoff", "metrics", "done"}]_vars
    /\ \A t \in 1 .. MaxTasks :
           []<>(\/ t \notin 1 .. Len(tasks)
                \/ tasks[t].must_cancel
                \/ tasks[t].pc \in {"metrics", "done"})

\* a loop backing off after a cycle that returned
C16_Witness ==
    /\ tasks # <<>>
    /\ tasks[1].pc = "backoff"
    /\ ~tasks[1].must_cancel
    /\ cycle_return # None

\* C17: run_learning_cycle never raises: when a call it awaits throws, the
\* cycle returns its result map with an "error" entry next to the results
\* recorded before the failure
C17_CycleNeverRaises ==
    /\ [](cycle_return # None =>
            LET results == cycle_return[1].results
                failed_at == cycle_return[1].failed_at
            IN /\ results.error = (failed_at # "none")
               /\ results.metrics = (failed_at # "metrics")
               /\ results.patterns = (failed_at \in {"none", "store"})
               /\ failed_at \in {"metrics", "should_report", "report"} =>
                      ~results.performance_report)
    /\ [][\A t \in 1 .. Len(tasks) :
              tasks[t].pc \in Range(CycleCalls) /\ ~tasks[t].must_cancel =>
                  tasks'[t].pc \in Range(CycleCalls) \cup {"sleep"}]_vars

\* a cycle whose store call threw after the metrics and the mining
C17_Witness ==
    /\ cycle_return # None
    /\ cycle_return[1].failed_at = "store"
    /\ cycle_return[1].results.error
    /\ cycle_return[1].results.metrics
    /\ cycle_return[1].results.patterns


\* the success and failure counts of the record store_pattern finds
StoredCounts(rows) ==
    LET i == FirstPattern(rows, SharedPatternType,
                          generate_pattern_key(SharedPatternData))
    IN <<rows[i].success_count, rows[i].failure_count>>

\* the counts after the call of `first` ran to its end on the record it
\* read, and the call of `second` after it
SequentialCounts(first, second) ==
    LET read == store_calls[first].existing_pattern
        one == PatternStored(IF read = None THEN <<>> ELSE <<read[1]>>, <<>>,
                             SharedPatternType, SharedPatternData,
                             store_calls[first].success, TRUE)
        two == PatternStored(one.rows, one.cache,
                             SharedPatternType, SharedPatternData,
                             store_calls[second].success, TRUE)
    IN StoredCounts(two.rows)

\* C18: when the store_pattern call of update_memories and the one of
\* run_learning_cycle on the same pattern type and key have both returned,
\* however their reads and writes interleaved, the success and failure counts
\* of the pattern are those of running the two calls one after the other, in
\* one order or the other.
C18_NoLostUpdate ==
    (\A c \in StoreCallers : store_calls[c].pc = "done")
        => \E first \in StoreCallers, second \in StoreCallers :
               /\ first # second
               /\ StoredCounts(action_patterns) = SequentialCounts(first, second)


\* the entries a per-trader or per-symbol feedback_history takes from the
\* records of the given types, in the order the records arrived (every
\* record that arrived is in feedback_store when the store never raises)
Arrived(types) ==
    LET kept == SelectSeq(feedback_store, LAMBDA r : r.type \in types)
    IN [i \in 1 .. Len(kept) |-> [value |-> kept[i].value, source |-> "unknown"]]

\* the feedback_history of a record's JSON data, empty when it has none
HistoryOf(db, key) ==
    IF key \in DOMAIN db /\ db[key].data.feedback_history # None
    THEN db[key].data.feedback_history[1] ELSE <<>>

\* the per-trader and per-symbol lists hold the most recent 100 entries
SubjectHistoriesCapped ==
    /\ HistoryOf(trader_profiles, "trader1")
           = SliceLast(Arrived({"trade_outcome", "trader_reliability"}),
                       FeedbackHistoryCap)
    /\ HistoryOf(market_knowledge, "AAPL")
           = SliceLast(Arrived({"trade_outcome"}), FeedbackHistoryCap)
    /\ Len(HistoryOf(trader_profiles, "trader1")) <= FeedbackHistoryCap
    /\ Len(HistoryOf(market_knowledge, "AAPL")) <= FeedbackHistoryCap

\* C19: after any sequence of process_user_feedback and
\* process_trade_outcome calls, the per-trader list, the per-symbol list and
\* the processor's own feedback_history each hold at most 100 entries, the
\* most recent ones in the order they arrived.
C19_FeedbackHistoriesCapped ==
    /\ SubjectHistoriesCapped
    /\ Len(feedback_history) <= FeedbackHistoryCap
    /\ feedback_history = SliceLast(feedback_store, FeedbackHistoryCap)


\* the trades and the signals update_memories was given, in the order of the
\* calls (the episodic tier keeps every experience when it never raises)
TradesGiven ==
    [i \in 1 .. Len(episodic_store) |->
        [symbol |-> episodic_store[i].input.symbol[1],
         action |-> episodic_store[i].input.action[1],
         result |-> episodic_store[i].result]]

SignalsGiven ==
    [i \in 1 .. Len(episodic_store) |->
        [trader_id |-> episodic_store[i].input.trader_id,
         action |-> episodic_store[i].input.action[1],
         result |-> episodic_store[i].result]]

\* the trade_history of a profile, the trade_signals of a market record
HeldHistory(db, key) ==
    IF key \in DOMAIN db /\ db[key].data.history # None
    THEN db[key].data.history[1] ELSE <<>>

\* C20: after any sequence of update_memories calls, the trader's
\* trade_history and the market record's trade_signals each hold at most 100
\* entries, the most recent ones (the oldest are dropped first).
C20_HistoriesTrimmed ==
    /\ Len(HeldHistory(trader_profiles, "trader1")) <= 100
    /\ HeldHistory(trader_profiles, "trader1") = SliceLast(TradesGiven, 100)
    /\ Len(HeldHistory(market_knowledge, "AAPL")) <= 100
    /\ HeldHistory(market_knowledge, "AAPL") = SliceLast(SignalsGiven, 100)


\* a list of a record's JSON data that is absent reads as the empty list
EmptyHistory(value) == value = None \/ value = Some(<<>>)

C22_InsufficientDataSentinel ==
    [][ perf_calls' # perf_calls /\ Len(perf_result'.read) < perf_config.min_sample_size
            => /\ perf_result'.status = "insufficient_data"
               /\ perf_result'.total_trades = Len(perf_result'.read)
               /\ perf_result'.min_sample_size = Some(perf_config.min_sample_size)
               /\ perf_result'.metrics = None
               /\ metrics_history' = metrics_history
               /\ metrics_store' = metrics_store ]_vars

\* a tracker that has a record in its history and in the store is asked
\* again, the store fails to return the outcomes, and it answers with the
\* sentinel
C22_Witness ==
    /\ perf_result.status = "insufficient_data"
    /\ perf_result.total_trades = 0
    /\ Len(trade_outcomes) >= perf_config.min_sample_size
    /\ Len(metrics_history) = 1
    /\ Len(metrics_store) = 1


\* the amounts of the records at the given positions, added up
RECURSIVE AmountsAt(_, _)
AmountsAt(outcomes, positions) ==
    IF positions = {} THEN 0
    ELSE LET i == CHOOSE i \in positions : TRUE
         IN (IF outcomes[i].profit_loss = None THEN 0 ELSE outcomes[i].profit_loss[1])
                + AmountsAt(outcomes, positions \ {i})

\* C23: when calculate_metrics read at least min_sample_size outcome records
\* it returns metrics in which successful, failed and neutral trades add up to
\* total_trades, success_rate is successful_trades / total_trades, total_profit
\* is the sum of the positive profit_loss values, total_loss the sum of the
\* negative ones and net_profit their sum; for success/+50, success/+30,
\* failure/-20, success/+40, failure/-10, unknown/0 these are 6, 3, 2, 1, 0.5,
\* 120, -30 and 90.
C23_MetricsArithmetic ==
    perf_result.status # "none" /\ Len(perf_result.read) >= perf_config.min_sample_size
        => /\ perf_result.status = "calculated"
           /\ perf_result.metrics # None
           /\ LET m == perf_result.metrics[1]
                  outcomes == perf_result.read
                  at == 1 .. Len(outcomes)
                  won == { i \in at : outcomes[i].outcome = Some("success") }
                  lost == { i \in at : outcomes[i].outcome = Some("failure") }
                  gains == { i \in at : outcomes[i].profit_loss # None
                                          /\ outcomes[i].profit_loss[1] > 0 }
                  losses == { i \in at : outcomes[i].profit_loss # None
                                           /\ outcomes[i].profit_loss[1] < 0 }
              IN /\ m.total_trades = Len(outcomes)
                 /\ m.successful_trades = Cardinality(won)
                 /\ m.failed_trades = Cardinality(lost)
                 /\ m.neutral_trades = Cardinality(at \ (won \cup lost))
                 /\ m.successful_trades + m.failed_trades + m.neutral_trades
                        = m.total_trades
                 /\ m.success_rate * m.total_trades <= m.successful_trades * Scale
                 /\ m.successful_trades * Scale < (m.success_rate + 1) * m.total_trades
                 /\ m.total_profit = AmountsAt(outcomes, gains)
                 /\ m.total_loss = AmountsAt(outcomes, losses)
                 /\ m.net_profit = m.total_profit + m.total_loss
                 /\ outcomes = MixedOutcomes
                        => /\ m.total_trades = 6 /\ m.successful_trades = 3
                           /\ m.failed_trades = 2 /\ m.neutral_trades = 1
                           /\ m.success_rate = Scale \div 2
                           /\ m.total_profit = 120 /\ m.total_loss = -30
                           /\ m.net_profit = 90

\* the metrics of the six mixed outcomes were calculated
C23_Witness ==
    /\ perf_result.status = "calculated"
    /\ perf_result.read = MixedOutcomes
    /\ perf_config = DefaultPerformanceConfig
    /\ perf_result.metrics[1].net_profit = 90


\* the positions of the trades read that belong to the group of a pattern
GroupOf(p) ==
    { j \in 1 .. Len(pr_result.read) :
        CASE p.type = "high_success_symbol" -> pr_result.read[j].symbol = Some(p.subject)
          [] p.type = "reliable_trader" -> pr_result.read[j].trader_id = Some(p.subject)
          [] OTHER -> /\ pr_result.read[j].symbol = Some(p.subject)
                      /\ pr_result.read[j].action = p.action }

SuccessesOf(p) ==
    Cardinality({ j \in GroupOf(p) : pr_result.read[j].outcome = "success" })

\* C24: every pattern detect_patterns("trades") returns is that of a group of
\* the trades read (by symbol, by trader, or by action and symbol) with at
\* least min_pattern_occurrences trades and a success rate of at least
\* min_pattern_confidence, and its confidence is
\* min(1, sample_size / (2 * min_pattern_occurrences)) * success_rate, in
\* [0, 1]; five trades with four successes under thresholds 5 and 0.7 give
\* success_rate 0.8 and confidence 0.4.
C24_TradePatternsQualified ==
    pr_result.data_type = "trades" /\ ~pr_result.raised =>
        \A i \in 1 .. Len(pr_result.patterns) :
            LET p == pr_result.patterns[i]
                total == Cardinality(GroupOf(p))
                half == IF total >= 2 * pr_config.min_pattern_occurrences THEN Scale
                        ELSE (total * Scale) \div (2 * pr_config.min_pattern_occurrences)
            IN /\ p.type \in {"high_success_symbol", "reliable_trader",
                              "action_symbol_success"}
               /\ p.sample_size = total
               /\ total >= pr_config.min_pattern_occurrences
               /\ p.success_rate * total <= SuccessesOf(p) * Scale
               /\ SuccessesOf(p) * Scale < (p.success_rate + 1) * total
               /\ p.success_rate >= pr_config.min_pattern_confidence
               /\ p.confidence = (half * p.success_rate) \div Scale
               /\ p.confidence >= 0 /\ p.confidence <= Scale
               /\ (/\ pr_config = DefaultPatternConfig
                   /\ total = 5 /\ SuccessesOf(p) = 4)
                      => /\ p.success_rate = (8 * Scale) \div 10
                         /\ p.confidence = (4 * Scale) \div 10

\* a symbol with five trades, four of them successful, was reported under
\* the default thresholds
C24_Witness ==
    /\ pr_result.data_type = "trades"
    /\ pr_config = DefaultPatternConfig
    /\ \E i \in 1 .. Len(pr_result.patterns) :
           /\ pr_result.patterns[i].type = "high_success_symbol"
           /\ pr_result.patterns[i].sample_size = 5
           /\ SuccessesOf(pr_result.patterns[i]) = 4
           /\ pr_result.patterns[i].confidence = (4 * Scale) \div 10

\* C25: detect_patterns with a data type other than trades, signals or
\* feedback raises at once: nothing is read from the store, no pattern is
\* returned, and the pattern cache, the stored patterns and the
\* _store_pattern calls made are as before the call.
C25_UnsupportedTypeRejected ==
    [][ pr_result'.calls # pr_result.calls
        /\ pr_result'.data_type \notin {"trades", "signals", "feedback"}
            => /\ pr_result'.raised
               /\ pr_result'.read = <<>>
               /\ pr_result'.patterns = <<>>
               /\ pr_pattern_cache' = pr_pattern_cache
               /\ detected_patterns' = detected_patterns
               /\ pr_calls' = pr_calls ]_vars

\* an unsupported data type was rejected by a detector that holds patterns
\* from an earlier pass over trades it would report again
C25_Witness ==
    /\ pr_result.raised
    /\ pr_result.data_type = "positions"
    /\ pr_calls # <<>>
    /\ DOMAIN pr_pattern_cache # {}
    /\ TradePatternsFound(pr_config, trade_outcomes) # <<>>

-----------------------------------------------------------------------------
(* The reward of a trade outcome *)

\* x held between lo and hi
Clamp(x, lo, hi) == IF x < lo THEN lo ELSE IF x > hi THEN hi ELSE x

RewardCalled == fb_call.op = "process_trade_outcome"

\* C26 as stated: the outcome is compared with "success" and "failure" as
\* written, so that a success reported in capitals would be rewarded 0
C26_RewardByExactOutcome ==
    RewardCalled =>
        LET profit == (fb_call.data.profit_loss * Scale) \div 100
        IN fb_call.returned =
               IF fb_call.data.outcome = "success"
               THEN Clamp(profit, Scale \div 10, Scale)
               ELSE IF fb_call.data.outcome = "failure"
               THEN Clamp(profit, -Scale, -(Scale \div 10))
               ELSE 0

\* C26: the reward process_trade_outcome returns is profit/100 held in
\* [0.1, 1.0] when the outcome, in lower case, is success, profit/100 held in
\* [-1.0, -0.1] when it is failure, and 0 otherwise; so it is in [0.1, 1.0]
\* for a success, in [-1.0, -0.1] for a failure, and always in [-1, 1]
C26_RewardClamped ==
    RewardCalled =>
        LET profit == (fb_call.data.profit_loss * Scale) \div 100
            outcome == Lower(fb_call.data.outcome)
            reward == fb_call.returned
        IN /\ outcome = "success" =>
                  /\ reward = Clamp(profit, Scale \div 10, Scale)
                  /\ Scale \div 10 <= reward /\ reward <= Scale
           /\ outcome = "failure" =>
                  /\ reward = Clamp(profit, -Scale, -(Scale \div 10))
                  /\ -Scale <= reward /\ reward <= -(Scale \div 10)
           /\ outcome \notin {"success", "failure"} => reward = 0
           /\ -Scale <= reward /\ reward <= Scale
           /\ Last(feedback_history).value = reward

\* a success of 250 rewarded 1.0 and then a failure of -5 rewarded -0.1:
\* both bounds applied
C26_Witness ==
    /\ fb_call.calls = 2
    /\ Len(feedback_history) = 2
    /\ feedback_history[1].value = Scale
    /\ fb_call.data.outcome = "failure"
    /\ fb_call.data.profit_loss = -5
    /\ fb_call.returned = -(Scale \div 10)

-----------------------------------------------------------------------------
(* Reliability counters of a trader *)

\* the counters and reliability the store holds for a trader, those of a
\* fresh profile when it holds none
CountedBefore(db, trader_id) ==
    IF trader_id \in DOMAIN db THEN db[trader_id] ELSE DefaultProfile(trader_id)

\* C27: every update_trader_reliability call with outcome success or
\* failure adds 1 to the matching counter and leaves the other, and the
\* reliability stored afterwards is successful_trades / (successful_trades +
\* failed_trades) whenever that total is positive; a call with any other
\* outcome leaves both counters and the reliability as they were.  The
\* profile returned and cached is the one stored.
C27_ReliabilityCounted ==
    [][ sem_call' # sem_call /\ sem_call'.op = "update_trader_reliability" =>
            LET id == sem_call'.key
                outcome == sem_call'.outcome
                before == CountedBefore(trader_profiles, id)
                after == trader_profiles'[id]
                total == after.successful_trades + after.failed_trades
            IN /\ outcome = "success" =>
                      /\ after.successful_trades = before.successful_trades + 1
                      /\ after.failed_trades = before.failed_trades
               /\ outcome = "failure" =>
                      /\ after.failed_trades = before.failed_trades + 1
                      /\ after.successful_trades = before.successful_trades
               /\ outcome \notin {"success", "failure"} =>
                      /\ after.successful_trades = before.successful_trades
                      /\ after.failed_trades = before.failed_trades
                      /\ after.reliability = before.reliability
               /\ total > 0 =>
                      after.reliability * total <= after.successful_trades * Scale
                      /\ after.successful_trades * Scale < (after.reliability + 1) * total
               /\ sem_call'.returned = Some(after)
               /\ trader_cache'[id] = after ]_vars

\* a failure counted after a success: one of each, reliability 0.5
C27_Witness ==
    /\ sem_call.op = "update_trader_reliability"
    /\ sem_call.outcome = "failure"
    /\ sem_call.returned[1].successful_trades = 1
    /\ sem_call.returned[1].failed_trades = 1
    /\ sem_call.returned[1].reliability = Scale \div 2
    /\ trader_profiles[sem_call.key] = sem_call.returned[1]

-----------------------------------------------------------------------------
(* LearningManager.process_feedback and process_outcome *)

\* the Q-table of the manager's engine after one update_q_value(state,
\* action, reward, next_state) on the table q
QTableAfter(q, state, action, reward, next_state) ==
    LET state_action_key == get_state_action_key(get_state_key(state),
                                                 get_action_key(action))
    IN DictSet(q, state_action_key,
               NewQ(rl_config, DictGet(q, state_action_key, 0), reward,
                    MaxNextQ(q, get_state_key(next_state))))

\* a call of one of the operations ops: the FeedbackProcessor took the data
\* (one record more in its history); with a state and an action in the data
\* one update_q_value was made with the value or reward the processing
\* returned; without them the engine is as it was
QUpdateFollows(ops) ==
    fb_call'.calls # fb_call.calls /\ fb_call'.op \in ops =>
        LET data == fb_call'.data
            q == heap[engine[1].q_values]
        IN /\ Len(feedback_history') = Len(feedback_history) + 1
           /\ Last(feedback_history').value = fb_call'.returned
           /\ IF data.state # None /\ data.action # None
              THEN /\ rl_updates' = rl_updates + 1
                   /\ heap'[engine[1].q_values] =
                          QTableAfter(q, data.state[1], data.action[1],
                                      fb_call'.returned, NextStateOf(data))
              ELSE UNCHANGED <<heap, engine, rl_updates>>

\* C28: process_feedback and process_outcome first hand the data to the
\* FeedbackProcessor and then, if and only if the data carries both a state
\* and an action, call update_q_value exactly once with the reward that
\* resulted from the feedback processing; when state or action is missing
\* the Q-table, the transition table and the exploration rate are unchanged
C28_QUpdateFollowsProcessing ==
    [][QUpdateFollows({"process_feedback", "process_outcome"})]_vars

\* the same of process_outcome alone
OutcomeQUpdateFollows == [][QUpdateFollows({"process_outcome"})]_vars

\* process_feedback leaves the engine alone when state or action is missing
FeedbackWithoutStateLeavesEngine ==
    [][ fb_call'.calls # fb_call.calls /\ fb_call'.op = "process_feedback"
        /\ (fb_call'.data.state = None \/ fb_call'.data.action = None)
            => UNCHANGED <<heap, engine, rl_updates>> ]_vars

-----------------------------------------------------------------------------
(* Feedback of a type that is not dispatched *)

DispatchedTypes == {"trade_signal", "trader_reliability", "strategy"}

\* C29: process_user_feedback with a type other than trade_signal,
\* trader_reliability or strategy appends exactly one record (of that type,
\* with the normalized value) to the feedback history and hands it to the
\* store, which holds it unless the store call itself failed, and changes
\* no trader profile, no market knowledge record and no action pattern
C29_UndispatchedTypeOnlyRecorded ==
    [][ /\ fb_call'.calls # fb_call.calls
        /\ fb_call'.op = "process_user_feedback"
        /\ fb_call'.data.type \notin DispatchedTypes
        => LET feedback_record == Last(feedback_history')
           IN /\ feedback_history' = Append(feedback_history, feedback_record)
              /\ feedback_record.type = fb_call'.data.type
              /\ feedback_record.source = "user"
              /\ feedback_record.value = fb_call'.returned
              /\ feedback_store' = IF fb_call'.stored
                                   THEN Append(feedback_store, feedback_record)
                                   ELSE feedback_store
              /\ UNCHANGED <<trader_profiles, market_knowledge, action_patterns,
                             trader_cache, market_cache, pattern_cache>> ]_vars

\* feedback of type general recorded and stored while the store holds a
\* market record, a trader record and a pattern it names
C29_Witness ==
    /\ fb_call.op = "process_user_feedback"
    /\ fb_call.data.type = "general"
    /\ fb_call.stored
    /\ Last(feedback_store).type = "general"
    /\ fb_call.data.symbol[1] \in DOMAIN market_knowledge
    /\ action_patterns # <<>>
    /\ action_patterns[1].pattern_key = fb_call.data.pattern_key[1]

-----------------------------------------------------------------------------
(* The decayed update of a trade outcome *)

\* the reliability in the JSON data of a stored record, 0.5 when the record
\* or the key is missing
ReliabilityHeld(db, key) ==
    IF key \in DOMAIN db /\ db[key].data.reliability # None
    THEN db[key].data.reliability[1] ELSE Scale \div 2

\* reliability * decay + reward * (1 - decay), held in [0, 1]
DecayedUpdate(reliability, reward) ==
    Clamp(Mul(reliability, fb_config.feedback_decay)
          + Mul(reward, Scale - fb_config.feedback_decay), 0, Scale)

\* C30: every process_trade_outcome sets the reliability of the market
\* record of the trade's symbol to clamp(reliability * decay + reward *
\* (1 - decay), 0, 1), and does the same to the trader's record if and only
\* if the trade data carries a trader id (no trader record changes
\* otherwise); with decay 0.9, reliability 0.5 and value 1.0 the new
\* reliability is 0.55
C30_OutcomeDecayedUpdate ==
    [][ fb_call'.calls # fb_call.calls /\ fb_call'.op = "process_trade_outcome" =>
            LET data == fb_call'.data
                reward == fb_call'.returned
                market == ReliabilityHeld(market_knowledge, data.symbol)
            IN /\ data.symbol \in DOMAIN market_knowledge'
               /\ market_knowledge'[data.symbol].data.reliability
                      = Some(DecayedUpdate(market, reward))
               /\ (fb_config.feedback_decay = (9 * Scale) \div 10
                   /\ market = Scale \div 2 /\ reward = Scale)
                      => market_knowledge'[data.symbol].data.reliability
                             = Some((55 * Scale) \div 100)
               /\ IF data.trader_id # None
                  THEN /\ data.trader_id[1] \in DOMAIN trader_profiles'
                       /\ trader_profiles'[data.trader_id[1]].data.reliability
                              = Some(DecayedUpdate(
                                         ReliabilityHeld(trader_profiles,
                                                         data.trader_id[1]),
                                         reward))
                  ELSE trader_profiles' = trader_profiles ]_vars

\* a first success of 250 (reward 1.0) under decay 0.9 took both records
\* from 0.5 to 0.55, and a trade without a trader then moved the market
\* record only
C30_Witness ==
    /\ fb_call.op = "process_trade_outcome"
    /\ fb_call.calls = 2
    /\ fb_call.data.trader_id = None
    /\ fb_config.feedback_decay = (9 * Scale) \div 10
    /\ "trader1" \in DOMAIN trader_profiles
    /\ trader_profiles["trader1"].data.reliability = Some((55 * Scale) \div 100)
    /\ market_knowledge["AAPL"].data.reliability # Some((55 * Scale) \div 100)
    /\ Len(market_knowledge["AAPL"].data.feedback_history[1]) = 2

-----------------------------------------------------------------------------
(* The pattern cache of ProceduralMemory against the store *)

\* the record the store holds under a cache key, <<>> when it holds none
PersistedPattern(rows, cache_key) ==
    LET hits == { i \in 1 .. Len(rows) :
                    CacheKey(rows[i].pattern_type, rows[i].pattern_key) = cache_key }
    IN IF hits = {} THEN None
       ELSE Some(rows[CHOOSE i \in hits : \A j \in hits : i <= j])

\* C31: after any sequence of store_pattern, get_pattern, clear_cache and
\* strategy feedback, every record in the pattern cache equals the record
\* the store holds for its type and key
C31_PatternCacheMirrorsStore ==
    \A cache_key \in DOMAIN pattern_cache :
        Some(pattern_cache[cache_key]) = PersistedPattern(action_patterns, cache_key)

\* every cached record is the stored one but for the counts and the
\* effectiveness, which strategy feedback writes in the store alone
CachedPatternIsStoredPattern ==
    \A cache_key \in DOMAIN pattern_cache :
        LET persisted == PersistedPattern(action_patterns, cache_key)
        IN /\ persisted # None
           /\ pattern_cache[cache_key].pattern_type = persisted[1].pattern_type
           /\ pattern_cache[cache_key].pattern_key = persisted[1].pattern_key
           /\ pattern_cache[cache_key].data = persisted[1].data

-----------------------------------------------------------------------------
(* The metrics history of the PerformanceTracker *)

\* C33: the metrics history never holds more than metrics_window_size
\* snapshots; a calculate_metrics call with enough data appends exactly one
\* snapshot, the one it returns, and the history afterwards is the most
\* recent metrics_window_size snapshots in the order they were taken; a
\* call with too few trades leaves the history as it was
C33_MetricsHistoryWindowed ==
    [][ /\ Len(metrics_history) <= perf_config.metrics_window_size
        /\ perf_calls' # perf_calls =>
              IF perf_result'.status = "calculated"
              THEN LET all == Append(metrics_history, perf_result'.metrics[1])
                       held == Len(metrics_history')
                   IN /\ held = PyMin(Len(all), perf_config.metrics_window_size)
                      /\ \A i \in 1 .. held :
                             metrics_history'[i] = all[Len(all) - held + i]
                      /\ perf_result'.metrics[1].id = perf_calls'
              ELSE metrics_history' = metrics_history ]_vars

\* under a window of one snapshot, the second calculation pushed the first
\* snapshot out
C33_Witness ==
    /\ perf_config.metrics_window_size = 1
    /\ perf_calls = 2
    /\ perf_result.status = "calculated"
    /\ Len(metrics_history) = 1
    /\ metrics_history[1].id = 2
    /\ Len(metrics_store) = 2

-----------------------------------------------------------------------------
(* Learning cycles: the performance report *)

CycleRan == cycle_log'.cycles # cycle_log.cycles

\* C32: a learning cycle generates a performance report if and only if no
\* report was generated before or at least report_frequency hours have
\* passed since the last one; a cycle that generates one sets the time of
\* the last report, and a cycle that generates none leaves that time and
\* the stored reports as they were, so that no other report follows within
\* report_frequency hours
C32_ReportWhenDue ==
    [][ CycleRan =>
          LET never == last_report_time = None
              elapsed == IF never THEN 0 ELSE utc_now - last_report_time[1]
          IN /\ cycle_log'.performance_report
                    <=> (never \/ elapsed >= perf_config.report_frequency)
             /\ cycle_log'.performance_report =>
                    /\ last_report_time' # None
                    /\ utc_now <= last_report_time'[1]
                    /\ last_report_time'[1] <= utc_now'
                    /\ \A i \in 1 .. Len(report_store') - 1 :
                           report_store'[i + 1].generated_at - report_store'[i].generated_at
                               >= perf_config.report_frequency
             /\ ~cycle_log'.performance_report =>
                    UNCHANGED <<last_report_time, report_store>> ]_vars

\* under a frequency of two hours: a second report, stored two hours or
\* more after the first
C32_Witness ==
    /\ cycle_log.cycles = 2
    /\ cycle_log.performance_report
    /\ Len(report_store) = 2
    /\ perf_config.report_frequency = 2

\* a second cycle that came before the report was due again and generated
\* none
ReportWithheld ==
    /\ cycle_log.cycles = 2
    /\ ~cycle_log.performance_report
    /\ last_report_time # None
    /\ utc_now > last_report_time[1]

-----------------------------------------------------------------------------
(* Learning cycles: repeated detection over unchanged trades *)

\* the group a detected pattern describes
PatternGroup(row) ==
    [type |-> row.pattern.type, subject |-> row.pattern.subject,
     action |-> row.pattern.action]

DetectedGroups(store) == { PatternGroup(store[i]) : i \in 1 .. Len(store) }

\* C40: over unchanged trade outcomes, a learning cycle after the first
\* creates no ActionPattern record and persists no DetectedPattern record
\* for a group that was detected before
C40_RepeatedCycleGrowsNoStore ==
    [][ (CycleRan /\ cycle_log.cycles >= 1) =>
          /\ Len(action_patterns') = Len(action_patterns)
          /\ \A i \in Len(detected_patterns) + 1 .. Len(detected_patterns') :
                 PatternGroup(detected_patterns'[i]) \notin DetectedGroups(detected_patterns) ]_vars

\* what a repeated cycle does: the pattern it returns carries a new id, so
\* the procedural tier takes it as a pattern it never saw, and the
\* detector stores it next to the one of the cycle before
RepeatedCycleStoresAgain ==
    [][ (/\ CycleRan
         /\ cycle_log.cycles >= 1
         /\ ~cycle_log'.error
         /\ pr_result'.patterns # <<>>
         /\ Len(pr_result'.patterns) = Len(pr_result.patterns)) =>
          Len(action_patterns') > Len(action_patterns) ]_vars

\* two cycles over five trades of one symbol, every store call succeeding:
\* two ActionPattern records and two DetectedPattern records of one group
RepeatedCycleStoredTwice ==
    /\ cycle_log.cycles = 2
    /\ Len(action_patterns) = 2
    /\ Len(detected_patterns) >= 2
    /\ PatternGroup(detected_patterns[1]) = PatternGroup(detected_patterns[Len(detected_patterns)])

-----------------------------------------------------------------------------
(* select_action: what it returns and what it touches *)

SelectCalled == rl_select'.calls # rl_select.calls

\* C34: a select_action call with candidates returns one of them and
\* appends one entry to the action history, of type exploration or
\* exploitation and naming the action returned; a call without candidates
\* returns nothing and appends nothing; either way the Q-table, the
\* transition table, the exploration rate, the saved model and the other
\* engine stay as they were
C34_SelectOnlyAppends ==
    [][ SelectCalled =>
          LET possible_actions == rl_select'.possible_actions
              history == engine[1].action_history
              history_after == engine'[1].action_history
          IN /\ IF possible_actions # <<>>
                THEN /\ rl_select'.returned # None
                     /\ \E i \in 1 .. Len(possible_actions) :
                            possible_actions[i] = rl_select'.returned[1]
                     /\ Len(history_after) = Len(history) + 1
                     /\ SubSeq(history_after, 1, Len(history)) = history
                     /\ history_after[Len(history_after)].type
                            \in {"exploration", "exploitation"}
                     /\ history_after[Len(history_after)].action = rl_select'.returned[1]
                ELSE /\ rl_select'.returned = None
                     /\ history_after = history
             /\ heap' = heap
             /\ engine'[1].exploration_rate = engine[1].exploration_rate
             /\ engine'[1].q_values = engine[1].q_values
             /\ engine'[1].state_transitions = engine[1].state_transitions
             /\ engine'[2] = engine[2]
             /\ UNCHANGED <<rl_config, saved_model, rl_updates, rate_after_update>> ]_vars

\* after two updates filled the tables: a call with two candidates that
\* returned the second, and the tables still hold what the updates wrote
C34_Witness ==
    /\ rl_updates = 2
    /\ rl_select.calls >= 1
    /\ Len(rl_select.possible_actions) = 2
    /\ rl_select.returned = Some(rl_select.possible_actions[2])
    /\ rl_select.possible_actions[1] # rl_select.possible_actions[2]
    /\ Len(engine[1].action_history) = 1
    /\ heap[engine[1].q_values] # EmptyDict

\* a call without candidates after one with: the history keeps its entry
SelectNoneAfterSelect ==
    /\ rl_select.calls = 2
    /\ rl_select.possible_actions = <<>>
    /\ rl_select.returned = None
    /\ Len(engine[1].action_history) = 1

-----------------------------------------------------------------------------
(* update_q_value: the entries that enter maxNextQ *)

\* C37: on every Q-table the engine reaches and for every next_state,
\* the maxNextQ that update_q_value computes is the maximum over the
\* entries recorded for exactly that state (0 if there are none): entries
\* of another state, one whose text extends next_state by "|" included,
\* contribute nothing
C37_MaxNextQOfExactState ==
    LET q == heap[engine[1].q_values]
    IN \A next_state \in StateInputs :
          MaxNextQ(q, get_state_key(next_state)) = ClaimedMaxNextQ(q, next_state)

\* the same for the next states that no other state extends by "|"
MaxNextQOfUnextendedState ==
    LET q == heap[engine[1].q_values]
    IN \A next_state \in StateInputs :
          (\A other \in StateInputs :
              other # next_state =>
                  ~StartsWith(other.text, next_state.text \o <<"|">>))
              => MaxNextQ(q, get_state_key(next_state)) = ClaimedMaxNextQ(q, next_state)

\* a table with an entry for "s|x" and none for "s", where maxNextQ of "s"
\* is the value of that entry
MaxNextQTakesExtendedState ==
    LET q == heap[engine[1].q_values]
    IN /\ ActionsSeenFrom(q, StrVal(<<"s">>)) = {}
       /\ ActionsSeenFrom(q, StrVal(<<"s", "|", "x">>)) # {}
       /\ MaxNextQ(q, get_state_key(StrVal(<<"s">>))) > 0

-----------------------------------------------------------------------------
(* save_model: what later updates do to a model handed out *)

\* C38: the tables of a saved model stay as they were saved: no later
\* step changes the Q-table or the transition table the model holds, and
\* an update on one engine changes no table of the other engine
C38_SavedModelIsSnapshot ==
    [][ /\ (saved_model # <<>> /\ saved_model' = saved_model) =>
              /\ heap'[saved_model[1].q_values] = heap[saved_model[1].q_values]
              /\ heap'[saved_model[1].state_transitions]
                     = heap[saved_model[1].state_transitions]
        /\ \A e \in Engines, f \in Engines :
              (f # e /\ UpdateOn(e)) =>
                  /\ heap'[engine[f].q_values] = heap[engine[f].q_values]
                  /\ heap'[engine[f].state_transitions]
                         = heap[engine[f].state_transitions] ]_vars

\* what an update does after save_model: the saved model holds the
\* engine's own tables, so it shows the entry the update wrote; the rate,
\* a number, stays as saved
SavedModelFollowsEngine ==
    [][ \A e \in Engines :
          (/\ saved_model # <<>>
           /\ saved_model' = saved_model
           /\ saved_model[1].q_values = engine[e].q_values
           /\ UpdateOn(e)) =>
              /\ heap'[saved_model[1].q_values] = heap'[engine'[e].q_values]
              /\ heap'[saved_model[1].q_values] # heap[saved_model[1].q_values]
              /\ saved_model'[1].exploration_rate = saved_model[1].exploration_rate ]_vars

\* a saved model whose rate is no longer the engine's while its Q-table is:
\* the engine was updated after it saved
SavedModelUpdatedAfterSave ==
    \E e \in Engines :
        /\ saved_model # <<>>
        /\ saved_model[1].q_values = QDict(e)
        /\ engine[e].q_values = QDict(e)
        /\ saved_model[1].exploration_rate # engine[e].exploration_rate
        /\ heap[QDict(e)] # EmptyDict

-----------------------------------------------------------------------------
(* SemanticMemory: the record a get returns and the record persisted *)

ServedAsPersisted ==
    /\ sem_call.op = "get_trader_profile" =>
           /\ sem_call.key \in DOMAIN trader_profiles
           /\ sem_call.returned = Some(trader_profiles[sem_call.key])
    /\ sem_call.op = "get_market_knowledge" =>
           /\ sem_call.key \in DOMAIN market_knowledge
           /\ sem_call.returned = Some(market_knowledge[sem_call.key])

\* C39: whatever SemanticMemory and the FeedbackProcessor did before,
\* get_trader_profile and get_market_knowledge return the record as it is
\* persisted when they return
C39_NeverServesStale == ServedAsPersisted

\* the same as long as the FeedbackProcessor processed nothing
ServedAsPersistedBeforeFeedback ==
    feedback_history = <<>> => ServedAsPersisted

\* a get_trader_profile that returned the cached record while the
\* persisted profile holds another reliability and another feedback
\* history
StaleProfileServed ==
    /\ sem_call.op = "get_trader_profile"
    /\ sem_call.key \in DOMAIN trader_profiles
    /\ sem_call.returned # None
    /\ sem_call.returned[1].data.reliability
           # trader_profiles[sem_call.key].data.reliability
    /\ sem_call.returned[1].data.feedback_history
           # trader_profiles[sem_call.key].data.feedback_history

-----------------------------------------------------------------------------
(* MemoryManager: the capacity of its working tier *)

\* C36: the working tier of the MemoryManager holds at most max_history
\* interactions, whatever max_episodic_memories is
C36_WorkingTierWithinMaxHistory ==
    Len(conversation_history) <= enhanced_config.max_history

\* the capacity the tier has: max_episodic_memories
WorkingTierWithinEpisodicLimit ==
    /\ max_history = enhanced_config.max_episodic_memories
    /\ Len(conversation_history) <= enhanced_config.max_episodic_memories

\* max_history 1 and max_episodic_memories 2: two interactions retained
WorkingTierBeyondMaxHistory ==
    /\ enhanced_config = [max_history |-> 1, max_episodic_memories |-> 2]
    /\ Len(conversation_history) = 2

-----------------------------------------------------------------------------
(* The FeedbackProcessor over a failing store *)

\* C35: process_user_feedback and process_trade_outcome return with
\* status processed whatever the store does, and append their record to
\* the feedback history; when the store raises on the record the id
\* returned is the id of that record, and when it raises on every call
\* nothing is persisted
C35_PersistenceFailureNotPropagated ==
    [][ fb_call'.calls # fb_call.calls =>
          LET record == Last(feedback_history')
          IN /\ fb_call'.status = "processed"
             /\ feedback_history' = Append(feedback_history, record)
             /\ record.source = IF fb_call'.op = "process_user_feedback"
                                THEN "user" ELSE "system"
             /\ ~fb_call'.stored =>
                    /\ fb_call'.id = [from |-> "record", id |-> Len(feedback_history')]
                    /\ feedback_store' = feedback_store
             /\ ~fb_call'.reachable =>
                    UNCHANGED <<trader_profiles, market_knowledge, action_patterns>>
             /\ UNCHANGED <<trader_cache, market_cache, pattern_cache>> ]_vars

\* two calls over a store that raised on every call, the second a trade
\* outcome naming its trader: both records in the history, the second
\* record's id returned, nothing persisted
C35_Witness ==
    /\ fb_call.calls = 2
    /\ fb_call.op = "process_trade_outcome"
    /\ fb_call.data.trader_id # None
    /\ ~fb_call.stored
    /\ ~fb_call.reachable
    /\ fb_call.status = "processed"
    /\ fb_call.id = [from |-> "record", id |-> 2]
    /\ Len(feedback_history) = 2
    /\ feedback_history[1].source = "user"
    /\ feedback_store = <<>>
    /\ DOMAIN trader_profiles = {}
    /\ DOMAIN market_knowledge = {}

=========================================================================
